---- MODULE Spec2Model ----
(***************************************************************************)
(* Model of the zcash_eth_bridge operator: the Chain-Z (zebra regtest)     *)
(* transaction sender TzeSender, the Chain-Z and Chain-E watchers, the     *)
(* Chain-E sender, and the reconciliation driver that connects them.       *)
(* Transaction ids are <<"cb", h>> (coinbase of block h) or <<"tx", i>>    *)
(* (the i-th transaction the node accepted).  Output indexes are 0-based   *)
(* as in the source; outs[n + 1] is output n.                              *)
(***************************************************************************)
EXTENDS Integers, Sequences, FiniteSets, TLC

\* ------------------------------------------------------------------ constants
LOCK_IN_VALUE == 100000
MIN_TRANSPARENT_COINBASE_MATURITY == 100
DRIVER_FEE == 50000
EXTENSION_ETH_BRIDGE == 1
STF_IDENTIFIER == 171

\* ------------------------------------------------------------------ bounds
InitZHeight == 100
CoinbaseValue == 625000000
MaxZBlocks == 4
MaxEvents == 2
MaxRestarts == 1
InitEHeight == 2

DepositAmounts == {1000, 2500}
WithdrawAmounts == {1000}
EthAddrs == {"e1"}
PubkeyHashes == {"k1"}

\* Bounds of the function-call specification.
MaxCallTxs == 3
MaxConfirmedUtxos == 3
MaxMempoolTxs == 2
MaxCallLogs == 3
MaxLogBlock == 3

\* Bounds of the wait_for_tx specification: blocks mined, polls counted.
MaxWaitBlocks == 3
MaxPolls == 3

\* Bounds of the single-sender specification.
MaxSenderOps == 5
MaxSenderBlocks == 1
MaxBatchDeposits == 2

VARIABLES
    zHeight,    \* Chain-Z block count
    ztxs,       \* transactions the Chain-Z node accepted, in order of arrival
    built,      \* transactions finish_tx returned, whether or not the node took them
    eHeight,    \* Chain-E block number
    latestState,\* the bridge contract's latestState()
    updates,    \* StateUpdates the bridge contract accepted, in order
    wzec,       \* wrapped token balances
    wlogs,      \* WithdrawalRequested logs of the bridge contract, in order
    dpc,        \* where the driver process is
    snd,        \* the driver's TzeSender (fee_txid, deposited)
    drv,        \* the driver's process memory
    cpc,        \* where the depositing client is
    cli,        \* the client's TzeSender
    restarts,   \* driver restarts so far
    lastOp,     \* the sender operation called last: its inputs and its outcome
    libCall,    \* the watcher or client function called last: arguments and result
    wait        \* the call of wait_for_tx looked at: where it is, what it was told last

vars == <<zHeight, ztxs, built, eHeight, latestState, updates, wzec, wlogs,
          dpc, snd, drv, cpc, cli, restarts, lastOp, libCall, wait>>

\* ------------------------------------------------------------------ helpers
RECURSIVE SumValues(_)
SumValues(s) == IF s = <<>> THEN 0 ELSE Head(s).value + SumValues(Tail(s))

RECURSIVE SumAmounts(_)
SumAmounts(s) == IF s = <<>> THEN 0 ELSE Head(s).amount + SumAmounts(Tail(s))

RECURSIVE Flatten(_)
Flatten(ss) == IF ss = <<>> THEN <<>> ELSE Head(ss) \o Flatten(Tail(ss))

Range(s) == {s[i] : i \in 1..Len(s)}

NoOutPoint == [txid |-> <<"none", 0>>, n |-> 0]
NoOut == [t |-> "none", mode |-> "none", ext |-> 0, stfid |-> 0, to |-> "none", value |-> 0]
NoTx == [kind |-> "none", ins |-> <<>>, outs |-> <<>>, height |-> 0,
         deposits |-> <<>>, withdrawals |-> <<>>, by |-> "none"]

\* A transparent pay-to-public-key-hash output.
TxOut(to, value) ==
    [t |-> "p2pkh", mode |-> "none", ext |-> 0, stfid |-> 0, to |-> to, value |-> value]

\* A TZE output of the bridge extension.
TzeOut(mode, to, value) ==
    [t |-> "tze", mode |-> mode, ext |-> EXTENSION_ETH_BRIDGE, stfid |-> STF_IDENTIFIER,
     to |-> to, value |-> value]

\* ------------------------------------------------------------------ Chain-Z node
CoinbaseTxid(h) == <<"cb", h>>

KnownTx(txs, height, txid) ==
    \/ txid[1] = "cb" /\ txid[2] \in 0..height
    \/ txid[1] = "tx" /\ txid[2] \in 1..Len(txs)

TxOutputs(txs, txid) ==
    IF txid[1] = "cb" THEN <<TxOut("miner", CoinbaseValue)>> ELSE txs[txid[2]].outs

TxHeightOf(txs, txid) ==
    IF txid[1] = "cb" THEN txid[2] ELSE txs[txid[2]].height

HasOutput(txs, height, op) ==
    KnownTx(txs, height, op.txid) /\ op.n + 1 \in 1..Len(TxOutputs(txs, op.txid))

OutputAt(txs, op) == TxOutputs(txs, op.txid)[op.n + 1]

IsSpent(txs, op) == \E i \in 1..Len(txs) : op \in Range(txs[i].ins)

\* What the node checks before it takes a transaction into its mempool.
NodeAccepts(txs, height, tx) ==
    /\ \A i \in 1..Len(tx.ins) :
          /\ HasOutput(txs, height, tx.ins[i])
          /\ ~IsSpent(txs, tx.ins[i])
          /\ tx.ins[i].txid[1] = "cb" =>
                height + 1 - tx.ins[i].txid[2] >= MIN_TRANSPARENT_COINBASE_MATURITY
          /\ \A j \in 1..Len(tx.ins) : i # j => tx.ins[i] # tx.ins[j]
    /\ \A k \in 1..Len(tx.outs) : tx.outs[k].value >= 0

\* ------------------------------------------------------------------ TzeSender
\* TzeSender::new at block count `height`: the fee coin is the coinbase of the
\* block MIN_TRANSPARENT_COINBASE_MATURITY below the target height.
SpendableCoinbaseTxid(targetHeight) ==
    CoinbaseTxid(targetHeight - MIN_TRANSPARENT_COINBASE_MATURITY)

TzeSenderNew(height) ==
    [fee_txid |-> SpendableCoinbaseTxid(height + 1), deposited |-> 0]

\* Result of a sender operation: res is "ok", "err" (an Err the caller gets)
\* or "panic" (an unwrap or assert that ends the process).
OpResult(res, s, tx, wasBuilt, op, out) ==
    [res |-> res, snd |-> s, tx |-> tx, built |-> wasBuilt, outpoint |-> op, out |-> out]

Failed(res, s) == OpResult(res, s, NoTx, FALSE, NoOutPoint, NoOut)

MkTx(kind, ins, outs, deposits, withdrawals, by) ==
    [kind |-> kind, ins |-> ins, outs |-> outs, height |-> 0,
     deposits |-> deposits, withdrawals |-> withdrawals, by |-> by]

\* add_fee_input: output 0 of the transaction recorded in fee_txid.
FeeInputOfTzeOutput(s) == [txid |-> s.fee_txid, n |-> 1]

FeeInput(s) == [txid |-> s.fee_txid, n |-> 0]

\* tx.tze_bundle().vout[0]
FirstTzeOut(outs) ==
    LET idx == {i \in 1..Len(outs) : outs[i].t = "tze"}
    IN  outs[CHOOSE i \in idx : \A j \in idx : i <= j]

\* finish_tx: the builder signs and builds under a fixed fee rule; the build
\* succeeds only when inputs minus outputs is exactly the fee.
FinishTxAllowsOverpay(inSum, outs, fee) == inSum - SumValues(outs) >= fee

FinishTx(inSum, outs, fee) == inSum - SumValues(outs) = fee

\* The tail as it would be without the rotation of fee_txid.
FinishAndSendKeepsFeeTxid(s0, s, tx, inSum, fee, vout, txs, height, fault) ==
    IF ~FinishTx(inSum, tx.outs, fee) THEN Failed("panic", s0)
    ELSE IF fault = "send" \/ ~NodeAccepts(txs, height, tx)
         THEN OpResult("panic", s0, tx, TRUE, NoOutPoint, NoOut)
    ELSE OpResult("ok", s, tx, TRUE,
                  [txid |-> <<"tx", Len(txs) + 1>>, n |-> vout], FirstTzeOut(tx.outs))

\* The common tail of the four operations: build, send, take the outpoint at
\* index vout, rotate fee_txid to the transaction just sent.  s0 is the sender
\* when the operation was called, s the sender as the operation has changed it;
\* fault "send" is send_raw_transaction returning an error.  A panic ends the
\* process, so no sender outlives it: the result shows s0.
FinishAndSend(s0, s, tx, inSum, fee, vout, txs, height, fault) ==
    IF ~FinishTx(inSum, tx.outs, fee) THEN Failed("panic", s0)
    ELSE IF fault = "send" \/ ~NodeAccepts(txs, height, tx)
         THEN OpResult("panic", s0, tx, TRUE, NoOutPoint, NoOut)
    ELSE LET hash == <<"tx", Len(txs) + 1>>
         IN  OpResult("ok", [s EXCEPT !.fee_txid = hash], tx, TRUE,
                      [txid |-> hash, n |-> vout], FirstTzeOut(tx.outs))

\* send_tze_create without its assert on the deposited counter.
SendTzeCreateNoAssert(s, fee, txs, height, by, fault) ==
    IF ~KnownTx(txs, height, s.fee_txid) THEN Failed("err", s)
    ELSE LET coin  == TxOutputs(txs, s.fee_txid)[1]
             value == coin.value - fee - LOCK_IN_VALUE
         IN  IF coin.value - fee < 0 \/ value < 0 THEN Failed("panic", s)
             ELSE IF fault \in {"tze_output", "fee_output"} THEN Failed("err", s)
             ELSE FinishAndSend(s, [s EXCEPT !.deposited = LOCK_IN_VALUE],
                                MkTx("create", <<FeeInput(s)>>,
                                     <<TxOut("miner", value),
                                       TzeOut("CREATE", "none", LOCK_IN_VALUE)>>,
                                     <<>>, <<>>, by),
                                coin.value, fee, 1, txs, height, fault)

SendTzeCreate(s, fee, txs, height, by, fault) ==
    IF ~KnownTx(txs, height, s.fee_txid) THEN Failed("err", s)
    ELSE LET coin  == TxOutputs(txs, s.fee_txid)[1]
             value == coin.value - fee - LOCK_IN_VALUE
         IN  IF coin.value - fee < 0 \/ value < 0 THEN Failed("panic", s)
             ELSE IF fault = "tze_output" THEN Failed("err", s)
             ELSE IF s.deposited # 0 THEN Failed("panic", s)
             ELSE LET s1 == [s EXCEPT !.deposited = LOCK_IN_VALUE]
                      tx == MkTx("create", <<FeeInput(s)>>,
                                 <<TxOut("miner", value),
                                   TzeOut("CREATE", "none", LOCK_IN_VALUE)>>,
                                 <<>>, <<>>, by)
                  IN  IF fault = "fee_output" THEN Failed("err", s1)
                      ELSE FinishAndSend(s, s1, tx, coin.value, fee, 1, txs, height, fault)

\* send_tze_deposit as it would be if it counted the deposit it sends.
SendTzeDepositCountsAmount(s, to, amount, fee, txs, height, by, fault) ==
    IF ~KnownTx(txs, height, s.fee_txid) THEN Failed("err", s)
    ELSE LET coin  == TxOutputs(txs, s.fee_txid)[1]
             value == coin.value - fee - amount
         IN  IF fault = "tze_output" THEN Failed("err", s)
             ELSE IF coin.value - fee < 0 \/ value < 0 THEN Failed("panic", s)
             ELSE IF fault = "fee_output" THEN Failed("err", s)
             ELSE FinishAndSend(s, [s EXCEPT !.deposited = @ + amount],
                                MkTx("deposit", <<FeeInput(s)>>,
                                     <<TxOut("miner", value), TzeOut("DEPOSIT", to, amount)>>,
                                     <<>>, <<>>, by),
                                coin.value, fee, 1, txs, height, fault)

SendTzeDeposit(s, to, amount, fee, txs, height, by, fault) ==
    IF ~KnownTx(txs, height, s.fee_txid) THEN Failed("err", s)
    ELSE LET coin  == TxOutputs(txs, s.fee_txid)[1]
             value == coin.value - fee - amount
         IN  IF fault = "tze_output" THEN Failed("err", s)
             ELSE IF coin.value - fee < 0 \/ value < 0 THEN Failed("panic", s)
             ELSE IF fault = "fee_output" THEN Failed("err", s)
             ELSE LET tx == MkTx("deposit", <<FeeInput(s)>>,
                                 <<TxOut("miner", value), TzeOut("DEPOSIT", to, amount)>>,
                                 <<>>, <<>>, by)
                  IN  FinishAndSend(s, s, tx, coin.value, fee, 1, txs, height, fault)

InitializeTzeStfKeepsCreate(s, fee, prevout, txs, height, by, fault) ==
    IF ~KnownTx(txs, height, s.fee_txid) THEN Failed("err", s)
    ELSE LET coin  == TxOutputs(txs, s.fee_txid)[1]
             value == coin.value - fee - LOCK_IN_VALUE
         IN  IF value < 0 THEN Failed("panic", s)
             ELSE LET tx == MkTx("init", <<FeeInput(s)>>,
                                 <<TxOut("miner", value),
                                   TzeOut("STF", "none", LOCK_IN_VALUE)>>,
                                 <<>>, <<>>, by)
                  IN  FinishAndSend(s, s, tx, coin.value, fee, 1, txs, height, fault)

InitializeTzeStf(s, fee, prevout, txs, height, by, fault) ==
    IF ~KnownTx(txs, height, s.fee_txid) THEN Failed("err", s)
    ELSE LET coin  == TxOutputs(txs, s.fee_txid)[1]
             value == coin.value - fee
         IN  IF fault \in {"tze_input", "tze_output"} THEN Failed("err", s)
             ELSE IF value < 0 THEN Failed("panic", s)
             ELSE IF fault = "fee_output" THEN Failed("err", s)
             ELSE LET tx == MkTx("init", <<FeeInput(s), prevout.op>>,
                                 <<TxOut("miner", value),
                                   TzeOut("STF", "none", LOCK_IN_VALUE)>>,
                                 <<>>, <<>>, by)
                  IN  FinishAndSend(s, s, tx, coin.value + prevout.out.value, fee, 1,
                                    txs, height, fault)

\* The counter as it would be with the withdrawals subtracted from the prior
\* value, before any deposit is added.
ProgressDepositedBeforeDeposits(deposited, depositOutpoints, withdrawals) ==
    deposited - SumAmounts(withdrawals)

\* The deposited counter after the deposit loop and the withdrawal loop.
ProgressDeposited(deposited, depositOutpoints, withdrawals) ==
    deposited + SumValues([i \in 1..Len(depositOutpoints) |-> depositOutpoints[i].out])
              - SumAmounts(withdrawals)

\* The outputs of a progress transaction: fee change, one transparent payout
\* per withdrawal in list order, then the new STF output.
ProgressOutsPaidFromFeeCoin(coinValue, fee, deposited, depositOutpoints, withdrawals) ==
    <<TxOut("miner", coinValue - fee - SumAmounts(withdrawals))>>
    \o [i \in 1..Len(withdrawals) |->
            TxOut(withdrawals[i].pubkey_hash, withdrawals[i].amount)]
    \o <<TzeOut("STF", "none", ProgressDeposited(deposited, depositOutpoints, <<>>))>>

ProgressOutsStfFirst(coinValue, fee, deposited, depositOutpoints, withdrawals) ==
    <<TxOut("miner", coinValue - fee),
      TzeOut("STF", "none", ProgressDeposited(deposited, depositOutpoints, withdrawals))>>
    \o [i \in 1..Len(withdrawals) |->
            TxOut(withdrawals[i].pubkey_hash, withdrawals[i].amount)]

ProgressOuts(coinValue, fee, deposited, depositOutpoints, withdrawals) ==
    <<TxOut("miner", coinValue - fee)>>
    \o [i \in 1..Len(withdrawals) |->
            TxOut(withdrawals[i].pubkey_hash, withdrawals[i].amount)]
    \o <<TzeOut("STF", "none",
                ProgressDeposited(deposited, depositOutpoints, withdrawals))>>

\* progress_tze_stf as it would be with wrapping instead of checked
\* subtraction of the withdrawals.
ProgressTzeStfNoUnderflowCheck(s, fee, prevout, depositOutpoints, procDeposits, procWithdrawals, txs, height, by, fault) ==
    IF ~KnownTx(txs, height, s.fee_txid) THEN Failed("err", s)
    ELSE LET coin == TxOutputs(txs, s.fee_txid)[1]
             s1   == [s EXCEPT !.deposited =
                         ProgressDeposited(s.deposited, depositOutpoints, procWithdrawals)]
             inSum == coin.value + prevout.out.value
                      + SumValues([i \in 1..Len(depositOutpoints) |->
                                      depositOutpoints[i].out])
         IN  IF fault \in {"tze_input", "fee_output", "tze_output"} THEN Failed("err", s)
             ELSE IF coin.value - fee < 0 THEN Failed("panic", s)
             ELSE FinishAndSend(s, s1,
                                MkTx("progress",
                                     <<FeeInput(s), prevout.op>>
                                     \o [i \in 1..Len(depositOutpoints) |->
                                            depositOutpoints[i].op],
                                     ProgressOuts(coin.value, fee, s.deposited,
                                                  depositOutpoints, procWithdrawals),
                                     procDeposits, procWithdrawals, by),
                                inSum, fee, 1 + Len(procWithdrawals), txs, height, fault)

\* fault names the builder call that returns an error, if any: add_stf_input
\* ("tze_input"), the first add_deposit_input ("deposit_input"), add_fee_output
\* ("fee_output"), the first add_transparent_output of a withdrawal
\* ("withdrawal_output"), add_stf_output ("tze_output").  The deposited counter
\* keeps what the loops have done to it when the error is returned.
ProgressTzeStf(s, fee, prevout, depositOutpoints, procDeposits, procWithdrawals, txs, height, by, fault) ==
    IF ~KnownTx(txs, height, s.fee_txid) THEN Failed("err", s)
    ELSE LET coin == TxOutputs(txs, s.fee_txid)[1]
             dep  == ProgressDeposited(s.deposited, depositOutpoints, procWithdrawals)
             s1   == [s EXCEPT !.deposited = dep]
             afterDeposits == [s EXCEPT !.deposited =
                                  ProgressDeposited(s.deposited, depositOutpoints, <<>>)]
             stf_output_number == 1 + Len(procWithdrawals)
             inSum == coin.value + prevout.out.value
                      + SumValues([i \in 1..Len(depositOutpoints) |->
                                      depositOutpoints[i].out])
         IN  IF fault = "tze_input" THEN Failed("err", s)
             ELSE IF fault = "deposit_input" /\ depositOutpoints # <<>>
                  THEN Failed("err", [s EXCEPT !.deposited =
                                         ProgressDeposited(s.deposited,
                                                           <<Head(depositOutpoints)>>, <<>>)])
             ELSE IF coin.value - fee < 0 THEN Failed("panic", s)
             ELSE IF fault = "fee_output" THEN Failed("err", afterDeposits)
             ELSE IF fault = "withdrawal_output" /\ procWithdrawals # <<>>
                  THEN Failed("err", afterDeposits)
             ELSE IF dep < 0 THEN Failed("panic", s)
             ELSE IF fault = "tze_output" THEN Failed("err", s1)
             ELSE LET tx == MkTx("progress",
                                 <<FeeInput(s), prevout.op>>
                                 \o [i \in 1..Len(depositOutpoints) |->
                                        depositOutpoints[i].op],
                                 ProgressOuts(coin.value, fee, s.deposited,
                                              depositOutpoints, procWithdrawals),
                                 procDeposits, procWithdrawals, by)
                  IN  FinishAndSend(s, s1, tx, inSum, fee, stf_output_number, txs,
                                    height, fault)

\* wait_for_tx returns the height once the node reports the transaction on the
\* main chain at a height above 0; until then it keeps polling.
WaitForTxReturnsUnmined(txs, txid) == KnownTx(txs, 0, txid)

WaitForTxReturns(txs, txid) ==
    KnownTx(txs, 0, txid) /\ TxHeightOf(txs, txid) > 0

\* ------------------------------------------------------------------ Chain-Z watcher
\* The deposits among outputs n.. of transaction i: a TZE output of the bridge
\* extension whose payload decodes as a deposit.
RECURSIVE DepositsOfTx(_, _, _)
DepositsOfTx(txs, i, n) ==
    IF n + 1 > Len(txs[i].outs) THEN <<>>
    ELSE LET output == txs[i].outs[n + 1]
             rest   == DepositsOfTx(txs, i, n + 1)
         IN  IF output.t # "tze" THEN rest
             ELSE IF output.ext # EXTENSION_ETH_BRIDGE THEN rest
             ELSE IF output.mode # "DEPOSIT" THEN rest
             ELSE <<[transfer |-> [eth_address |-> output.to, amount |-> output.value],
                     op |-> [txid |-> <<"tx", i>>, n |-> n],
                     out |-> output]>> \o rest

\* The deposits of the block at height h, transactions i.. in block order.
RECURSIVE DepositsOfBlock(_, _, _)
DepositsOfBlock(txs, h, i) ==
    IF i > Len(txs) THEN <<>>
    ELSE (IF txs[i].height = h THEN DepositsOfTx(txs, i, 0) ELSE <<>>)
         \o DepositsOfBlock(txs, h, i + 1)

\* The blocks of first..last that hold a transaction besides their coinbase
\* (a coinbase has no TZE output), lowest first.
RECURSIVE DepositsOfBlocks(_, _)
DepositsOfBlocks(txs, heights) ==
    IF heights = {} THEN <<>>
    ELSE LET h == CHOOSE x \in heights : \A y \in heights : x <= y
         IN  DepositsOfBlock(txs, h, 1) \o DepositsOfBlocks(txs, heights \ {h})

\* extract_zec_to_eth_transfers over the blocks first..last.
ExtractZecToEthTransfers(txs, first, last) ==
    DepositsOfBlocks(txs, {txs[i].height : i \in 1..Len(txs)} \cap (first..last))

Transfers(found) == [i \in 1..Len(found) |-> found[i].transfer]
OutPoints(found) == [i \in 1..Len(found) |-> [op |-> found[i].op, out |-> found[i].out]]

\* ------------------------------------------------------------------ Chain-E watcher
\* extract_eth_to_zec_transfers over a non-empty block slice first..last: one
\* transfer per WithdrawalRequested log in the range, in log order.
ExtractEthToZecTransfersFromPrevBlock(logs, first, last) ==
    LET hit == SelectSeq(logs, LAMBDA l : l.block \in (first - 1)..last)
    IN  [i \in 1..Len(hit) |-> [pubkey_hash |-> hit[i].pubkey_hash, amount |-> hit[i].amount]]

ExtractEthToZecTransfers(logs, first, last) ==
    LET hit == SelectSeq(logs, LAMBDA l : l.block \in first..last)
    IN  [i \in 1..Len(hit) |-> [pubkey_hash |-> hit[i].pubkey_hash, amount |-> hit[i].amount]]

\* ------------------------------------------------------------------ Chain-E sender
\* update_bridge: the StateUpdate as the contract's struct.
UpdateBridgeCallNoDeposits(su) ==
    [previousEthBlockNumber |-> su.old_eth_block,
     newEthBlockNumber      |-> su.new_eth_block,
     previousZecBlockNumber |-> su.old_zcash_block,
     newZecBlockNumber      |-> su.new_zcash_block,
     zecToEthTransfers      |-> <<>>,
     ethToZecTransfers      |-> [i \in 1..Len(su.eth_to_zec_transfers) |->
                                    [pubkeyHash |-> su.eth_to_zec_transfers[i].pubkey_hash,
                                     amount |-> su.eth_to_zec_transfers[i].amount]]]

UpdateBridgeCallSwapsZecBlocks(su) ==
    [previousEthBlockNumber |-> su.old_eth_block,
     newEthBlockNumber      |-> su.new_eth_block,
     previousZecBlockNumber |-> su.new_zcash_block,
     newZecBlockNumber      |-> su.old_zcash_block,
     zecToEthTransfers      |-> [i \in 1..Len(su.zec_to_eth_transfers) |->
                                    [to |-> su.zec_to_eth_transfers[i].eth_address,
                                     amount |-> su.zec_to_eth_transfers[i].amount]],
     ethToZecTransfers      |-> [i \in 1..Len(su.eth_to_zec_transfers) |->
                                    [pubkeyHash |-> su.eth_to_zec_transfers[i].pubkey_hash,
                                     amount |-> su.eth_to_zec_transfers[i].amount]]]

UpdateBridgeCall(su) ==
    [previousEthBlockNumber |-> su.old_eth_block,
     newEthBlockNumber      |-> su.new_eth_block,
     previousZecBlockNumber |-> su.old_zcash_block,
     newZecBlockNumber      |-> su.new_zcash_block,
     zecToEthTransfers      |-> [i \in 1..Len(su.zec_to_eth_transfers) |->
                                    [to |-> su.zec_to_eth_transfers[i].eth_address,
                                     amount |-> su.zec_to_eth_transfers[i].amount]],
     ethToZecTransfers      |-> [i \in 1..Len(su.eth_to_zec_transfers) |->
                                    [pubkeyHash |-> su.eth_to_zec_transfers[i].pubkey_hash,
                                     amount |-> su.eth_to_zec_transfers[i].amount]]]

\* ------------------------------------------------------------------ bridge contract
\* Wrapped tokens minted to address a by the transfers of one StateUpdate.
RECURSIVE MintedTo(_, _)
MintedTo(transfers, a) ==
    IF transfers = <<>> THEN 0
    ELSE (IF Head(transfers).to = a THEN Head(transfers).amount ELSE 0)
         + MintedTo(Tail(transfers), a)

\* submitStateUpdate: credits every Chain-Z deposit of the update.
ContractMint(balances, call) ==
    [a \in DOMAIN balances |-> balances[a] + MintedTo(call.zecToEthTransfers, a)]

ContractLatestState(call) ==
    [ethBlockNumber |-> call.newEthBlockNumber, zecBlockNumber |-> call.newZecBlockNumber]

RECURSIVE SumBalances(_, _)
SumBalances(balances, addrs) ==
    IF addrs = {} THEN 0
    ELSE LET a == CHOOSE x \in addrs : TRUE
         IN  balances[a] + SumBalances(balances, addrs \ {a})

TotalSupply == SumBalances(wzec, DOMAIN wzec)

\* ------------------------------------------------------------------ driver
\* update_zcash: the transfers of the StateUpdate as processed deposits and
\* withdrawals of a progress transition paid with the driver's fixed fee.
UpdateZcash(s, prevout, zcashDepositOutpoints, su, txs, height) ==
    ProgressTzeStf(s, DRIVER_FEE, prevout, zcashDepositOutpoints,
                   [i \in 1..Len(su.zec_to_eth_transfers) |->
                       [to |-> su.zec_to_eth_transfers[i].eth_address,
                        amount |-> su.zec_to_eth_transfers[i].amount]],
                   [i \in 1..Len(su.eth_to_zec_transfers) |->
                       [pubkey_hash |-> su.eth_to_zec_transfers[i].pubkey_hash,
                        amount |-> su.eth_to_zec_transfers[i].amount]],
                   txs, height, "driver", "none")

NoStf == [op |-> NoOutPoint, out |-> NoOut]

NoBatch == [deposits |-> <<>>, withdrawals |-> <<>>, h_z |-> 0, h_e |-> 0,
            txid |-> <<"none", 0>>, next_stf |-> NoStf, h_z_new |-> 0]

StateUpdateOf(d, b) ==
    [old_eth_block |-> d.last_e, new_eth_block |-> b.h_e,
     old_zcash_block |-> d.last_z, new_zcash_block |-> b.h_z_new,
     eth_to_zec_transfers |-> b.withdrawals,
     zec_to_eth_transfers |-> b.deposits]

\* Every outpoint of every transaction the node holds.
AllOutPoints(txs) ==
    UNION {{[txid |-> <<"tx", i>>, n |-> k - 1] : k \in 1..Len(txs[i].outs)} :
             i \in 1..Len(txs)}

IsStfAnchor(output) ==
    /\ output.t = "tze"
    /\ output.ext = EXTENSION_ETH_BRIDGE
    /\ output.mode \in {"CREATE", "STF"}
    /\ output.stfid = STF_IDENTIFIER

\* The STF outputs of the deployment that are mined and not spent by a mined
\* transaction: what a scan of the chain finds.
UnspentStfOnChain(txs) ==
    {op \in AllOutPoints(txs) :
        /\ txs[op.txid[2]].height > 0
        /\ IsStfAnchor(OutputAt(txs, op))
        /\ OutputAt(txs, op).mode = "STF"
        /\ ~\E j \in 1..Len(txs) : txs[j].height > 0 /\ op \in Range(txs[j].ins)}

\* ------------------------------------------------------------------ initial state
\* No sender operation has been called yet.
NoOp == [n |-> 0, kind |-> "none", fee |-> 0, fault |-> "none", height |-> 0,
         before |-> TzeSenderNew(InitZHeight), after |-> TzeSenderNew(InitZHeight),
         prevout |-> NoStf, deposits |-> <<>>, withdrawals |-> <<>>,
         res |-> "none", built |-> FALSE, tx |-> NoTx, outpoint |-> NoOutPoint,
         out |-> NoOut, creates |-> 0]

\* No watcher or client function has been called yet.
NoCall == [fn |-> "none", args |-> <<>>, res |-> "none", ret |-> <<>>]

\* wait_for_tx has not been called.
NoWait == [pc |-> "idle", txid |-> <<"none", 0>>, polls |-> 0,
           answer |-> [kind |-> "none", height |-> <<>>], ret |-> 0]

Init ==
    /\ wait = NoWait
    /\ zHeight = InitZHeight
    /\ ztxs = <<>>
    /\ built = <<>>
    /\ eHeight = InitEHeight
    /\ latestState = [ethBlockNumber |-> 0, zecBlockNumber |-> 0]
    /\ updates = <<>>
    /\ wzec = [a \in EthAddrs |-> 0]
    /\ wlogs = <<>>
    /\ dpc = "init"
    /\ snd = TzeSenderNew(InitZHeight)
    /\ drv = [last_z |-> 0, last_e |-> 0, stf |-> NoStf, batch |-> NoBatch]
    /\ cpc = "init"
    /\ cli = TzeSenderNew(InitZHeight)
    /\ restarts = 0
    /\ lastOp = NoOp
    /\ libCall = NoCall

chainE == <<eHeight, latestState, updates, wzec, wlogs>>
client == <<cpc, cli>>

\* What a sender operation leaves on the node and in the build log.
NodeAfter(r) == IF r.res = "ok" THEN Append(ztxs, r.tx) ELSE ztxs
BuiltAfter(r) == IF r.built THEN Append(built, r.tx) ELSE built

\* What the users of the bridge have done so far: deposits sent, withdrawals
\* requested, and Chain-E blocks mined by other traffic.
NumDeposits == Cardinality({i \in 1..Len(ztxs) : ztxs[i].kind = "deposit"})
NumEvents == NumDeposits + (eHeight - InitEHeight - Len(updates))

\* ------------------------------------------------------------------ Chain-Z
\* The node mines a block holding every transaction of its mempool.
ZMine ==
    /\ zHeight < InitZHeight + MaxZBlocks
    /\ zHeight' = zHeight + 1
    /\ ztxs' = [i \in 1..Len(ztxs) |->
                   IF ztxs[i].height = 0 THEN [ztxs[i] EXCEPT !.height = zHeight + 1]
                   ELSE ztxs[i]]
    /\ UNCHANGED <<built, chainE, dpc, snd, drv, client, restarts, lastOp, libCall, wait>>

\* ------------------------------------------------------------------ Chain-E
EMine ==
    /\ NumEvents < MaxEvents
    /\ eHeight' = eHeight + 1
    /\ UNCHANGED <<zHeight, ztxs, built, latestState, updates, wzec, wlogs,
                   dpc, snd, drv, client, restarts, lastOp, libCall, wait>>

\* A holder burns wrapped tokens: requestWithdrawal(amount, pkh).
RequestWithdrawal(user, amount, pkh) ==
    /\ NumEvents < MaxEvents
    /\ wzec[user] >= amount
    /\ eHeight' = eHeight + 1
    /\ wzec' = [wzec EXCEPT ![user] = @ - amount]
    /\ wlogs' = Append(wlogs, [pubkey_hash |-> pkh, amount |-> amount,
                               block |-> eHeight + 1])
    /\ UNCHANGED <<zHeight, ztxs, built, latestState, updates,
                   dpc, snd, drv, client, restarts, lastOp, libCall, wait>>

\* ------------------------------------------------------------------ client
ClientNew ==
    /\ cpc = "init"
    /\ cli' = TzeSenderNew(zHeight)
    /\ cpc' = "ready"
    /\ UNCHANGED <<zHeight, ztxs, built, chainE, dpc, snd, drv, restarts, lastOp, libCall, wait>>


ClientDeposit(to, amount) ==
    /\ cpc = "ready"
    /\ NumEvents < MaxEvents
    /\ LET r == SendTzeDeposit(cli, to, amount, DRIVER_FEE, ztxs, zHeight, "client", "none")
       IN  /\ ztxs' = NodeAfter(r)
           /\ built' = BuiltAfter(r)
           /\ cli' = r.snd
           /\ cpc' = IF r.res = "ok" THEN "ready" ELSE "dead"
    /\ UNCHANGED <<zHeight, chainE, dpc, snd, drv, restarts, lastOp, libCall, wait>>

\* ------------------------------------------------------------------ driver: deploy
DeployCreate ==
    /\ dpc = "init"
    /\ LET r == SendTzeCreate(TzeSenderNew(zHeight), DRIVER_FEE, ztxs, zHeight, "driver", "none")
       IN  /\ ztxs' = NodeAfter(r)
           /\ built' = BuiltAfter(r)
           /\ snd' = r.snd
           /\ dpc' = IF r.res = "ok" THEN "create_wait" ELSE "aborted"
           /\ drv' = [drv EXCEPT !.stf = [op |-> r.outpoint, out |-> r.out]]
    /\ UNCHANGED <<zHeight, chainE, client, restarts, lastOp, libCall, wait>>

DeployInit ==
    /\ dpc = "create_wait"
    /\ WaitForTxReturns(ztxs, drv.stf.op.txid)
    /\ LET r == InitializeTzeStf(snd, DRIVER_FEE, drv.stf, ztxs, zHeight, "driver", "none")
       IN  /\ ztxs' = NodeAfter(r)
           /\ built' = BuiltAfter(r)
           /\ snd' = r.snd
           /\ dpc' = IF r.res = "ok" THEN "init_wait" ELSE "aborted"
           /\ drv' = [drv EXCEPT !.stf = [op |-> r.outpoint, out |-> r.out]]
    /\ UNCHANGED <<zHeight, chainE, client, restarts, lastOp, libCall, wait>>

\* deploy returns; the driver seeds its watermarks from latestState().
DeployDone ==
    /\ dpc = "init_wait"
    /\ WaitForTxReturns(ztxs, drv.stf.op.txid)
    /\ dpc' = "scan"
    /\ drv' = [drv EXCEPT !.last_z = latestState.zecBlockNumber,
                          !.last_e = latestState.ethBlockNumber]
    /\ UNCHANGED <<zHeight, ztxs, built, chainE, snd, client, restarts, lastOp, libCall, wait>>

\* ------------------------------------------------------------------ driver: loop
\* Steps 1-5 of one iteration: snapshot both heights, collect the deposits and
\* withdrawals of the new blocks, and send the progress transition.
DriverIterate ==
    /\ dpc = "scan"
    /\ UNCHANGED <<zHeight, chainE, client, restarts, lastOp, libCall, wait>>
    /\ LET h_z == zHeight
           h_e == eHeight
       IN  IF h_e <= drv.last_e
           THEN \* extract_eth_to_zec_transfers unwraps the first of no blocks
                /\ dpc' = "aborted"
                /\ UNCHANGED <<ztxs, built, snd, drv>>
           ELSE LET found == ExtractZecToEthTransfers(ztxs, drv.last_z + 1, h_z)
                    withdrawals == ExtractEthToZecTransfers(wlogs, drv.last_e + 1, h_e)
                    b  == [NoBatch EXCEPT !.deposits = Transfers(found),
                                          !.withdrawals = withdrawals,
                                          !.h_z = h_z, !.h_e = h_e]
                    r  == UpdateZcash(snd, drv.stf, OutPoints(found),
                                      StateUpdateOf(drv, b), ztxs, zHeight)
                IN  IF found = <<>> /\ withdrawals = <<>>
                    THEN /\ drv' = [drv EXCEPT !.last_z = h_z, !.last_e = h_e]
                         /\ UNCHANGED <<ztxs, built, snd, dpc>>
                    ELSE /\ ztxs' = NodeAfter(r)
                         /\ built' = BuiltAfter(r)
                         /\ snd' = r.snd
                         /\ dpc' = IF r.res = "ok" THEN "z_wait" ELSE "aborted"
                         /\ drv' = [drv EXCEPT !.batch =
                                       [b EXCEPT !.txid = r.outpoint.txid,
                                                 !.next_stf = [op |-> r.outpoint,
                                                               out |-> r.out]]]

\* Step 5, on inclusion: wait_for_tx returns the height of the transition.
DriverIncluded ==
    /\ dpc = "z_wait"
    /\ WaitForTxReturns(ztxs, drv.batch.txid)
    /\ dpc' = "e_submit"
    /\ drv' = [drv EXCEPT !.stf = drv.batch.next_stf,
                          !.batch.h_z_new = TxHeightOf(ztxs, drv.batch.txid)]
    /\ UNCHANGED <<zHeight, ztxs, built, chainE, snd, client, restarts, lastOp, libCall, wait>>

\* Steps 6 and 7: update_bridge sends the StateUpdate and awaits the receipt;
\* the contract credits the deposits; both watermarks advance.
DriverSubmitUpdate ==
    /\ dpc = "e_submit"
    /\ LET call == UpdateBridgeCall(StateUpdateOf(drv, drv.batch))
       IN  /\ updates' = Append(updates, [call |-> call, block |-> eHeight + 1])
           /\ wzec' = ContractMint(wzec, call)
           /\ latestState' = ContractLatestState(call)
    /\ eHeight' = eHeight + 1
    /\ dpc' = "scan"
    /\ drv' = [drv EXCEPT !.last_z = drv.batch.h_z, !.last_e = drv.batch.h_e,
                          !.batch = NoBatch]
    /\ UNCHANGED <<zHeight, ztxs, built, wlogs, snd, client, restarts, lastOp, libCall, wait>>

\* ------------------------------------------------------------------ driver: crash, restart
\* Startup of a new process: a new sender, the watermarks from latestState(),
\* the current STF from a scan of Chain-Z.
Startup(op) ==
    /\ drv' = [last_z |-> latestState.zecBlockNumber,
               last_e |-> latestState.ethBlockNumber,
               stf |-> [op |-> op, out |-> OutputAt(ztxs, op)],
               batch |-> NoBatch]
    /\ snd' = TzeSenderNew(zHeight)
    /\ dpc' = "scan"
    /\ restarts' = restarts + 1
    /\ UNCHANGED <<zHeight, ztxs, built, chainE, client, lastOp, libCall, wait>>

\* The process is killed inside the loop and started again.
CrashRestart ==
    /\ dpc \in {"scan", "z_wait", "e_submit"}
    /\ restarts < MaxRestarts
    /\ \E op \in UnspentStfOnChain(ztxs) : Startup(op)

\* The process has exited on a fatal error and is started again.
Restart ==
    /\ dpc = "aborted"
    /\ restarts < MaxRestarts
    /\ \E op \in UnspentStfOnChain(ztxs) : Startup(op)

Next ==
    \/ ZMine
    \/ EMine
    \/ \E u \in EthAddrs, a \in WithdrawAmounts, k \in PubkeyHashes :
          RequestWithdrawal(u, a, k)
    \/ ClientNew
    \/ \E to \in EthAddrs, a \in DepositAmounts : ClientDeposit(to, a)
    \/ DeployCreate
    \/ DeployInit
    \/ DeployDone
    \/ DriverIterate
    \/ DriverIncluded
    \/ DriverSubmitUpdate
    \/ CrashRestart
    \/ Restart

Spec == Init /\ [][Next]_vars

\* ------------------------------------------------------------------ one sender, any caller
\* A caller that owns one TzeSender and calls its operations in any order, with
\* any of the inputs below, against a node that mines now and then.  Every
\* call is recorded in lastOp.
SenderFees == {DRIVER_FEE, CoinbaseValue + 1}
SenderFaults == {"none", "tze_input", "deposit_input", "fee_output",
                 "withdrawal_output", "tze_output", "send"}
SenderWithdrawals ==
    {<<>>,
     <<[pubkey_hash |-> "k1", amount |-> 1500]>>,
     <<[pubkey_hash |-> "k1", amount |-> 100000]>>,
     <<[pubkey_hash |-> "k1", amount |-> 101000]>>,
     <<[pubkey_hash |-> "k2", amount |-> 1000], [pubkey_hash |-> "k1", amount |-> 500]>>}

\* The fee is off only in calls the builder does not fail.
SenderInputs == {<<f, x>> \in SenderFees \X SenderFaults : f = DRIVER_FEE \/ x = "none"}

\* The outputs of mode m the node holds, with their outpoints, in chain order.
OutputsOfMode(txs, m) ==
    LET all == Flatten([i \in 1..Len(txs) |->
                   [k \in 1..Len(txs[i].outs) |->
                       [op |-> [txid |-> <<"tx", i>>, n |-> k - 1],
                        out |-> txs[i].outs[k]]]])
    IN  SelectSeq(all, LAMBDA e : e.out.t = "tze" /\ e.out.mode = m)

\* The lists of at most MaxBatchDeposits distinct entries of seq, in its order.
SubSeqs(seq) ==
    {[i \in 1..Len(pick) |-> seq[pick[i]]] :
        pick \in {q \in UNION {[1..n -> 1..Len(seq)] : n \in 0..MaxBatchDeposits} :
                    \A i \in 1..Len(q) - 1 : q[i] < q[i + 1]}}

SenderReady == lastOp.n < MaxSenderOps /\ lastOp.res # "panic"

OpRecord(kind, fee, fault, prevout, deposits, withdrawals, r) ==
    [n |-> lastOp.n + 1, kind |-> kind, fee |-> fee, fault |-> fault,
     height |-> zHeight, before |-> snd, after |-> r.snd,
     prevout |-> prevout, deposits |-> deposits, withdrawals |-> withdrawals,
     res |-> r.res, built |-> r.built, tx |-> r.tx, outpoint |-> r.outpoint,
     out |-> r.out,
     creates |-> lastOp.creates + (IF kind = "create" /\ r.res = "ok" THEN 1 ELSE 0)]

SenderCall(kind, fee, fault, prevout, deposits, withdrawals, r) ==
    /\ ztxs' = NodeAfter(r)
    /\ built' = BuiltAfter(r)
    /\ snd' = r.snd
    /\ lastOp' = OpRecord(kind, fee, fault, prevout, deposits, withdrawals, r)
    /\ UNCHANGED <<zHeight, chainE, dpc, drv, client, restarts, libCall, wait>>

SMine ==
    /\ zHeight < InitZHeight + MaxSenderBlocks
    /\ zHeight' = zHeight + 1
    /\ ztxs' = [i \in 1..Len(ztxs) |->
                   IF ztxs[i].height = 0 THEN [ztxs[i] EXCEPT !.height = zHeight + 1]
                   ELSE ztxs[i]]
    /\ UNCHANGED <<built, chainE, dpc, snd, drv, client, restarts, lastOp, libCall, wait>>

\* TzeSender::new: the caller drops its sender, or starts again after a panic.
SNew ==
    /\ lastOp.n < MaxSenderOps
    /\ snd' = TzeSenderNew(zHeight)
    /\ lastOp' = [NoOp EXCEPT !.n = lastOp.n + 1, !.kind = "new", !.height = zHeight,
                               !.before = snd, !.after = TzeSenderNew(zHeight),
                               !.res = "ok"]
    /\ UNCHANGED <<zHeight, ztxs, built, chainE, dpc, drv, client, restarts, libCall, wait>>

SCreate(fee, fault) ==
    /\ SenderReady
    /\ SenderCall("create", fee, fault, NoStf, <<>>, <<>>,
                  SendTzeCreate(snd, fee, ztxs, zHeight, "sender", fault))

SDeposit(to, amount, fee, fault) ==
    /\ SenderReady
    /\ SenderCall("deposit", fee, fault, NoStf, <<>>, <<>>,
                  SendTzeDeposit(snd, to, amount, fee, ztxs, zHeight, "sender", fault))

SInit(prevout, fee, fault) ==
    /\ SenderReady
    /\ SenderCall("init", fee, fault, prevout, <<>>, <<>>,
                  InitializeTzeStf(snd, fee, prevout, ztxs, zHeight, "sender", fault))

\* The processed deposits a caller may list next to the deposit outpoints:
\* one per outpoint, as the watcher pairs them, or that list short of its
\* last entry.
ProcessedOf(deposits) ==
    [i \in 1..Len(deposits) |-> [to |-> deposits[i].out.to, amount |-> deposits[i].out.value]]

ProcessedChoices(deposits) ==
    {ProcessedOf(deposits)}
    \cup (IF deposits = <<>> THEN {} ELSE {SubSeq(ProcessedOf(deposits), 1, Len(deposits) - 1)})

SProgress(prevout, deposits, processed, withdrawals, fee, fault) ==
    /\ SenderReady
    /\ SenderCall("progress", fee, fault, prevout, deposits, withdrawals,
                  ProgressTzeStf(snd, fee, prevout, deposits, processed,
                                 withdrawals, ztxs, zHeight, "sender", fault))

SenderInit == Init

SenderNext ==
    \/ SMine
    \/ SNew
    \/ \E i \in SenderInputs : SCreate(i[1], i[2])
    \/ \E to \in EthAddrs, a \in DepositAmounts, i \in SenderInputs :
          SDeposit(to, a, i[1], i[2])
    \/ \E p \in Range(OutputsOfMode(ztxs, "CREATE")), i \in SenderInputs :
          SInit(p, i[1], i[2])
    \/ \E p \in Range(OutputsOfMode(ztxs, "STF")),
          d \in SubSeqs(OutputsOfMode(ztxs, "DEPOSIT")),
          w \in SenderWithdrawals, i \in SenderInputs :
          \E pd \in ProcessedChoices(d) : SProgress(p, d, pd, w, i[1], i[2])

SenderSpec == SenderInit /\ [][SenderNext]_vars

\* ------------------------------------------------------------------ watcher and client functions
\* The functions of the watchers and of the node client that take their whole
\* input as arguments, called with any argument of the sets below.
\*
\* eth_bridge::Precondition::from_payload: the payload of a DEPOSIT output
\* decodes unless it is garbled; the other modes decode to their own kind.
FromPayload(output) ==
    IF output.mode = "DEPOSIT" /\ output.to # "garbled"
    THEN [kind |-> "Deposit", to |-> output.to]
    ELSE IF output.mode \in {"CREATE", "STF"} /\ output.to = "none"
    THEN [kind |-> output.mode, to |-> "none"]
    ELSE [kind |-> "Err", to |-> "none"]

\* The loop over the outputs n.. of one transaction of a block.
RECURSIVE ExtractFromTxAnyExtension(_, _)
ExtractFromTxAnyExtension(tx, n) ==
    IF n + 1 > Len(tx.outs) THEN <<>>
    ELSE LET output == tx.outs[n + 1]
             rest   == ExtractFromTxAnyExtension(tx, n + 1)
         IN  IF output.t # "tze" THEN rest
             ELSE IF FromPayload(output).kind # "Deposit" THEN rest
             ELSE <<[transfer |-> [eth_address |-> FromPayload(output).to,
                                   amount |-> output.value],
                     op |-> [txid |-> tx.hash, n |-> n],
                     out |-> output]>> \o rest

RECURSIVE ExtractFromTx(_, _)
ExtractFromTx(tx, n) ==
    IF n + 1 > Len(tx.outs) THEN <<>>
    ELSE LET output == tx.outs[n + 1]
             rest   == ExtractFromTx(tx, n + 1)
         IN  IF output.t # "tze" THEN rest
             ELSE IF output.ext # EXTENSION_ETH_BRIDGE THEN rest
             ELSE IF FromPayload(output).kind # "Deposit" THEN rest
             ELSE <<[transfer |-> [eth_address |-> FromPayload(output).to,
                                   amount |-> output.value],
                     op |-> [txid |-> tx.hash, n |-> n],
                     out |-> output]>> \o rest

\* The loop over the transactions t.. of one block.
RECURSIVE ExtractFromBlock(_, _)
ExtractFromBlock(block, t) ==
    IF t > Len(block) THEN <<>>
    ELSE ExtractFromTx(block[t], 0) \o ExtractFromBlock(block, t + 1)

\* extract_zec_to_eth_transfers(blocks): the loop over the blocks as given.
RECURSIVE ExtractFromBlocks(_)
ExtractFromBlocks(blocks) ==
    IF blocks = <<>> THEN <<>>
    ELSE ExtractFromBlock(Head(blocks), 1) \o ExtractFromBlocks(Tail(blocks))

\* The output lists of the transactions the watcher is shown: deposits of two
\* amounts, a deposit with a garbled payload, a deposit of another extension,
\* a deposit whose payload names the stf_identifier of another bridge,
\* the STF and CREATE outputs of the bridge, two deposits in one transaction,
\* and a transaction without a TZE output.
WatcherTxOuts ==
    {<<TxOut("miner", 7), TzeOut("DEPOSIT", "e1", 1000)>>,
     <<TxOut("miner", 7), TzeOut("DEPOSIT", "e2", 2500)>>,
     <<TxOut("miner", 7), TzeOut("DEPOSIT", "garbled", 300)>>,
     <<TxOut("miner", 7), [TzeOut("DEPOSIT", "e1", 400) EXCEPT !.ext = EXTENSION_ETH_BRIDGE + 1]>>,
     <<TxOut("miner", 7), [TzeOut("DEPOSIT", "e1", 600) EXCEPT !.stfid = STF_IDENTIFIER + 1]>>,
     <<TxOut("miner", 7), TzeOut("STF", "none", LOCK_IN_VALUE)>>,
     <<TxOut("miner", 7), TzeOut("CREATE", "none", LOCK_IN_VALUE)>>,
     <<TzeOut("DEPOSIT", "e2", 2500), TzeOut("DEPOSIT", "e1", 1000)>>,
     <<TxOut("miner", 7)>>}

SeqsUpTo(S, n) == UNION {[1..k -> S] : k \in 0..n}

\* Blocks holding the transactions with the output lists outs, in that
\* order; a new block starts after every place in cuts.  The hash of a
\* transaction names its place in the list.
MkBlocks(outs, cuts) ==
    LET txs == [i \in 1..Len(outs) |->
                   [hash |-> <<"tx", i>>, outs |-> outs[i],
                    block |-> 1 + Cardinality({c \in cuts : c < i})]]
    IN  IF outs = <<>> THEN <<>>
        ELSE [b \in 1..(1 + Cardinality(cuts)) |->
                 LET mine == SelectSeq(txs, LAMBDA x : x.block = b)
                 IN  [t \in 1..Len(mine) |-> [hash |-> mine[t].hash, outs |-> mine[t].outs]]]

WatcherBlockLists ==
    UNION {{MkBlocks(outs, cuts) : cuts \in SUBSET (1..(Len(outs) - 1))} :
             outs \in SeqsUpTo(WatcherTxOuts, MaxCallTxs)}

\* One call is looked at: its result depends on nothing but its arguments.
LibCalled(fn, args, res, ret) ==
    /\ libCall = NoCall
    /\ libCall' = [fn |-> fn, args |-> args, res |-> res, ret |-> ret]
    /\ UNCHANGED <<zHeight, ztxs, built, chainE, dpc, snd, drv, client, restarts, lastOp, wait>>

CallExtractZecToEthTransfers(blocks) ==
    LibCalled("extract_zec_to_eth_transfers", <<blocks>>, "ok", ExtractFromBlocks(blocks))

\* ------------------------------------------------------------------ node client: UTXOs of an address
Utxo(address, txid, index, value, height) ==
    [address |-> address, txid |-> txid, index |-> index, value |-> value, height |-> height]

\* The hash bytes hex::decode gives for an id string of the mempool listing.
DecodedTxid(tx_id_hex) == <<"decoded", tx_id_hex>>

\* Step 3 works on the transactions of the mempool listing one by one; an
\* entry is what getrawtransaction gives for the id: fetch is "ok", or
\* "rpc_err" (the call fails), "raw" (a raw reply), "unparsable" (the hex does
\* not parse), and then the loop goes on with the next id.
\*
\* Step 3, first half: the (txid, index) keys of the confirmed UTXOs that an
\* input of a mempool transaction names.
SpentOutpointsByTxidOnly(confirmed, mempool) ==
    {<<confirmed[u].txid, confirmed[u].index>> : u \in
        {u \in 1..Len(confirmed) :
            \E m \in 1..Len(mempool) : \E i \in 1..Len(mempool[m].vin) :
                /\ mempool[m].fetch = "ok"
                /\ mempool[m].vin[i].hash = confirmed[u].txid}}

SpentOutpoints(confirmed, mempool) ==
    {<<confirmed[u].txid, confirmed[u].index>> : u \in
        {u \in 1..Len(confirmed) :
            \E m \in 1..Len(mempool) : \E i \in 1..Len(mempool[m].vin) :
                /\ mempool[m].fetch = "ok"
                /\ mempool[m].vin[i].hash = confirmed[u].txid
                /\ mempool[m].vin[i].n = confirmed[u].index}}

\* Step 3, second half: the outputs index.. of one mempool transaction that
\* pay the address, as UTXOs of height 0.
RECURSIVE MempoolUtxosOfTx(_, _, _)
MempoolUtxosOfTx(tx, index, address) ==
    IF index + 1 > Len(tx.vout) THEN <<>>
    ELSE LET output == tx.vout[index + 1]
             rest   == MempoolUtxosOfTx(tx, index + 1, address)
         IN  IF output.recipient = "none" THEN rest
             ELSE IF output.recipient # address THEN rest
             ELSE <<Utxo(address, DecodedTxid(tx.id), index, output.value, 0)>> \o rest

\* The loop without the `continue` of a failed fetch.
RECURSIVE MempoolUtxosOfUnfetched(_, _)
MempoolUtxosOfUnfetched(mempool, address) ==
    IF mempool = <<>> THEN <<>>
    ELSE MempoolUtxosOfTx(Head(mempool), 0, address)
         \o MempoolUtxosOfUnfetched(Tail(mempool), address)

RECURSIVE MempoolUtxos(_, _)
MempoolUtxos(mempool, address) ==
    IF mempool = <<>> THEN <<>>
    ELSE IF Head(mempool).fetch # "ok" THEN MempoolUtxos(Tail(mempool), address)
    ELSE MempoolUtxosOfTx(Head(mempool), 0, address) \o MempoolUtxos(Tail(mempool), address)

\* Steps 4 and 5: retain the confirmed UTXOs that are not spent, then extend
\* with the mempool UTXOs.
GetAddressUtxosWithMempool(confirmed, mempool, address) ==
    SelectSeq(confirmed,
              LAMBDA utxo : <<utxo.txid, utxo.index>> \notin SpentOutpoints(confirmed, mempool))
    \o MempoolUtxos(mempool, address)

\* The lists of distinct elements of S of length at most n.
DistinctSeqsUpTo(S, n) ==
    {q \in SeqsUpTo(S, n) : \A i \in 1..Len(q), j \in 1..Len(q) : i # j => q[i] # q[j]}

\* What getaddressutxos may return for address "A": two outputs of one
\* transaction and one of another.
ConfirmedUtxoChoices ==
    {Utxo("A", <<"hash", "c1">>, 0, 500, 5),
     Utxo("A", <<"hash", "c1">>, 1, 600, 5),
     Utxo("A", <<"hash", "c2">>, 0, 700, 6)}

\* The transactions the mempool may hold: spending one or the other of these
\* outputs or none, and paying "A", someone else or no address.
MempoolTxChoices ==
    {[id |-> "m1", fetch |-> "ok", vin |-> <<[hash |-> <<"hash", "c1">>, n |-> 0]>>,
      vout |-> <<[recipient |-> "A", value |-> 50]>>],
     [id |-> "m2", fetch |-> "ok", vin |-> <<[hash |-> <<"hash", "c2">>, n |-> 0]>>,
      vout |-> <<[recipient |-> "B", value |-> 60], [recipient |-> "A", value |-> 70]>>],
     [id |-> "m3", fetch |-> "ok", vin |-> <<[hash |-> <<"hash", "c3">>, n |-> 0]>>,
      vout |-> <<[recipient |-> "B", value |-> 10]>>],
     [id |-> "m4", fetch |-> "ok", vin |-> <<[hash |-> <<"hash", "c3">>, n |-> 1],
                                             [hash |-> <<"hash", "c1">>, n |-> 1]>>,
      vout |-> <<[recipient |-> "none", value |-> 5], [recipient |-> "A", value |-> 80],
                 [recipient |-> "A", value |-> 90]>>],
     [id |-> "m5", fetch |-> "ok", vin |-> <<[hash |-> <<"hash", "m1">>, n |-> 0]>>,
      vout |-> <<[recipient |-> "A", value |-> 40]>>]}

\* The same transactions when the node fails to give them: the call fails,
\* the reply is raw, the hex does not parse.
UnfetchedTxChoices ==
    {[t EXCEPT !.fetch = f] : t \in {t \in MempoolTxChoices : t.id \in {"m1", "m4"}},
                              f \in {"rpc_err", "raw", "unparsable"}}

\* The mempool listings: no id twice.
MempoolLists ==
    {q \in SeqsUpTo(MempoolTxChoices \cup UnfetchedTxChoices, MaxMempoolTxs) :
        \A i \in 1..Len(q), j \in 1..Len(q) : i # j => q[i].id # q[j].id}

CallGetAddressUtxosWithMempool(confirmed, mempool) ==
    LibCalled("get_address_utxos_with_mempool", <<confirmed, mempool, "A">>, "ok",
              GetAddressUtxosWithMempool(confirmed, mempool, "A"))

\* ------------------------------------------------------------------ Chain-E watcher: one call
\* A 256-bit amount is hi * 2^64 + lo.  u64::try_from gives the amount when it
\* fits in 64 bits and nothing otherwise; an Option is a sequence of length 0
\* or 1.
U64Wrapping(amount) == <<amount.lo>>

U64TryFrom(amount) == IF amount.hi = 0 THEN <<amount.lo>> ELSE <<>>

\* provider.get_logs(filter): the logs of the bridge contract with the
\* WithdrawalRequested signature in blocks first..last, in log order.
GetLogs(logs, first, last) ==
    SelectSeq(logs, LAMBDA l : /\ l.address = "bridge"
                               /\ l.block >= first /\ l.block <= last
                               /\ l.topic0 = "WithdrawalRequested")

\* The loop over the logs: the transfers pushed so far, or the panic of
\* expect("Amount exceeds u64").
RECURSIVE TransfersOfLogs(_, _)
TransfersOfLogs(logs, transfers) ==
    IF logs = <<>> THEN [res |-> "ok", ret |-> transfers]
    ELSE LET amount == U64TryFrom(Head(logs).amount)
         IN  IF amount = <<>> THEN [res |-> "panic", ret |-> <<>>]
             ELSE TransfersOfLogs(Tail(logs),
                      Append(transfers, [pubkey_hash |-> Head(logs).pubkey_hash,
                                         amount |-> amount[1]]))

\* extract_eth_to_zec_transfers(blocks) against a node that holds `logs`.
ExtractEthToZecTransfersOfBlocks(logs, blocks, rpcFails) ==
    IF blocks = <<>> THEN [res |-> "panic", ret |-> <<>>]
    ELSE IF rpcFails THEN [res |-> "err", ret |-> <<>>]
    ELSE TransfersOfLogs(GetLogs(logs, Head(blocks), blocks[Len(blocks)]), <<>>)

\* Logs of Chain-E: withdrawal requests of the bridge with amounts that fit
\* and one that does not, a log of another contract, another event of the bridge.
LogChoices ==
    {[address |-> "bridge", topic0 |-> "WithdrawalRequested", block |-> 1,
      pubkey_hash |-> "k1", amount |-> [hi |-> 0, lo |-> 1000]],
     [address |-> "bridge", topic0 |-> "WithdrawalRequested", block |-> 2,
      pubkey_hash |-> "k2", amount |-> [hi |-> 0, lo |-> 2500]],
     [address |-> "bridge", topic0 |-> "WithdrawalRequested", block |-> 2,
      pubkey_hash |-> "k1", amount |-> [hi |-> 1, lo |-> 1000]],
     [address |-> "other", topic0 |-> "WithdrawalRequested", block |-> 1,
      pubkey_hash |-> "k1", amount |-> [hi |-> 0, lo |-> 700]],
     [address |-> "bridge", topic0 |-> "StateUpdated", block |-> 2,
      pubkey_hash |-> "k1", amount |-> [hi |-> 0, lo |-> 800]],
     [address |-> "bridge", topic0 |-> "WithdrawalRequested", block |-> 3,
      pubkey_hash |-> "k1", amount |-> [hi |-> 0, lo |-> 300]]}

\* The logs a node may hold: in block order.
LogLists ==
    {q \in SeqsUpTo(LogChoices, MaxCallLogs) :
        \A i \in 1..Len(q), j \in 1..Len(q) : i < j => q[i].block <= q[j].block}

\* The block lists the function is given: none, or blocks a..b.
BlockRanges ==
    {<<>>} \cup {[i \in 1..(b - a + 1) |-> a + i - 1] : a \in 1..MaxLogBlock, b \in 1..MaxLogBlock}

CallExtractEthToZecTransfers(logs, blocks, rpcFails) ==
    LET r == ExtractEthToZecTransfersOfBlocks(logs, blocks, rpcFails)
    IN  LibCalled("extract_eth_to_zec_transfers", <<logs, blocks, rpcFails>>, r.res, r.ret)

LibInit == Init

LibNext ==
    \/ \E blocks \in WatcherBlockLists : CallExtractZecToEthTransfers(blocks)
    \/ \E confirmed \in DistinctSeqsUpTo(ConfirmedUtxoChoices, MaxConfirmedUtxos),
          mempool \in MempoolLists :
          CallGetAddressUtxosWithMempool(confirmed, mempool)
    \/ \E logs \in LogLists, blocks \in BlockRanges, rpcFails \in BOOLEAN :
          CallExtractEthToZecTransfers(logs, blocks, rpcFails)

LibSpec == LibInit /\ [][LibNext]_vars

\* ------------------------------------------------------------------ wait_for_tx
\* One call of wait_for_tx for a transaction that a sender hands to the node,
\* that is mined, and that a reorganisation may move to a side chain and back
\* to the mempool.  An Option is a sequence of length 0 or 1.
\*
\* get_raw_transaction(txid, true): an error when the call fails or the node
\* does not know the transaction, else the object with its height: None in the
\* mempool, Some(-1) on a side chain, Some(h) on the main chain.
GetRawTransaction(txs, txid, rpcFails) ==
    IF rpcFails \/ ~KnownTx(txs, 0, txid) THEN [kind |-> "Err", height |-> <<>>]
    ELSE [kind |-> "Object",
          height |-> IF TxHeightOf(txs, txid) = 0 THEN <<>> ELSE <<TxHeightOf(txs, txid)>>]

\* tx.height() > Some(0), with any reported height taken for a confirmation.
HeightIsReported(height) == height # <<>>

\* tx.height() > Some(0): None is below every Some.
HeightAboveZero(height) == height # <<>> /\ height[1] > 0

\* One turn of the loop of wait_for_tx, after its sleep.
WaitForTxPoll(w, txs, rpcFails) ==
    LET tx == GetRawTransaction(txs, w.txid, rpcFails)
    IN  IF tx.kind = "Object" /\ HeightAboveZero(tx.height)
        THEN [w EXCEPT !.pc = "returned", !.ret = tx.height[1], !.answer = tx]
        ELSE [w EXCEPT !.polls = IF @ < MaxPolls THEN @ + 1 ELSE @, !.answer = tx]

\* The transaction waited for: the first one the node is given.
WaitedTxid == <<"tx", 1>>

WCall ==
    /\ wait.pc = "idle"
    /\ wait' = [NoWait EXCEPT !.pc = "polling", !.txid = WaitedTxid]
    /\ UNCHANGED <<zHeight, ztxs, built, chainE, dpc, snd, drv, client, restarts, lastOp, libCall>>

WPoll(rpcFails) ==
    /\ wait.pc = "polling"
    /\ wait' = WaitForTxPoll(wait, ztxs, rpcFails)
    /\ UNCHANGED <<zHeight, ztxs, built, chainE, dpc, snd, drv, client, restarts, lastOp, libCall>>

\* A client sends the deposit whose confirmation is waited for.
WSend(amount) ==
    /\ ztxs = <<>>
    /\ LET r == SendTzeDeposit(TzeSenderNew(zHeight), "e1", amount, DRIVER_FEE, ztxs,
                               zHeight, "client", "none")
       IN  /\ r.res = "ok"
           /\ ztxs' = NodeAfter(r)
           /\ built' = BuiltAfter(r)
    /\ UNCHANGED <<zHeight, chainE, dpc, snd, drv, client, restarts, lastOp, libCall, wait>>

\* The node mines a block with its mempool, or an empty one.
WMine ==
    /\ zHeight < InitZHeight + MaxWaitBlocks
    /\ zHeight' = zHeight + 1
    /\ ztxs' = [i \in 1..Len(ztxs) |->
                   IF ztxs[i].height = 0 THEN [ztxs[i] EXCEPT !.height = zHeight + 1]
                   ELSE ztxs[i]]
    /\ UNCHANGED <<built, chainE, dpc, snd, drv, client, restarts, lastOp, libCall, wait>>

\* A reorganisation leaves the block of the transaction on a side chain.
WReorg ==
    /\ ztxs # <<>> /\ ztxs[1].height > 0
    /\ ztxs' = [ztxs EXCEPT ![1].height = -1]
    /\ UNCHANGED <<zHeight, built, chainE, dpc, snd, drv, client, restarts, lastOp, libCall, wait>>

\* The node takes the transaction of the side chain back into its mempool.
WRejoin ==
    /\ ztxs # <<>> /\ ztxs[1].height = -1
    /\ ztxs' = [ztxs EXCEPT ![1].height = 0]
    /\ UNCHANGED <<zHeight, built, chainE, dpc, snd, drv, client, restarts, lastOp, libCall, wait>>

WaitInit == Init

WaitNext ==
    \/ WCall
    \/ \E rpcFails \in BOOLEAN : WPoll(rpcFails)
    \/ \E a \in DepositAmounts : WSend(a)
    \/ WMine
    \/ WReorg
    \/ WRejoin

WaitSpec == WaitInit /\ [][WaitNext]_vars

\* The loop has no exit but the return: after every sleep it polls again, and
\* a call the node answers is not put off forever.
WaitFairSpec == WaitSpec /\ WF_vars(WPoll(FALSE))

\* ------------------------------------------------------------------ observations
\* The progress transitions the node holds and the ones the driver built.
ProgressTxs == SelectSeq(ztxs, LAMBDA t : t.kind = "progress")
BuiltProgress == SelectSeq(built, LAMBDA t : t.kind = "progress")

AllMined(txs) == \A i \in 1..Len(txs) : txs[i].height > 0

\* Deposits minus withdrawals processed by the first k progress transitions.
NetProcessed(k) ==
    SumAmounts(Flatten([i \in 1..k |-> ProgressTxs[i].deposits]))
    - SumAmounts(Flatten([i \in 1..k |-> ProgressTxs[i].withdrawals]))

\* locked_value of the STF output the k-th progress transition emits.
StfValueOfBatch(k) == FirstTzeOut(ProgressTxs[k].outs).value

\* CREATE and STF outputs nothing the node holds spends, and the ones a scan
\* of the mined chain finds unspent.
UnspentAnchors ==
    {op \in AllOutPoints(ztxs) : IsStfAnchor(OutputAt(ztxs, op)) /\ ~IsSpent(ztxs, op)}

UnspentAnchorsMined ==
    {op \in AllOutPoints(ztxs) :
        /\ ztxs[op.txid[2]].height > 0
        /\ IsStfAnchor(OutputAt(ztxs, op))
        /\ ~\E j \in 1..Len(ztxs) : ztxs[j].height > 0 /\ op \in Range(ztxs[j].ins)}

\* Transparent payouts of the progress transitions, in chain order.
PayoutsOf(tx) ==
    LET paid == SelectSeq(tx.outs, LAMBDA o : o.t = "p2pkh" /\ o.to # "miner")
    IN  [i \in 1..Len(paid) |-> [pubkey_hash |-> paid[i].to, amount |-> paid[i].value]]

Payouts == Flatten([i \in 1..Len(ProgressTxs) |-> PayoutsOf(ProgressTxs[i])])

Requests ==
    [i \in 1..Len(wlogs) |-> [pubkey_hash |-> wlogs[i].pubkey_hash,
                              amount |-> wlogs[i].amount]]

IsPrefix(a, b) == Len(a) <= Len(b) /\ \A i \in 1..Len(a) : a[i] = b[i]

\* Withdrawals requested after the block latestState reports: burned on
\* Chain-E, not yet paid on Chain-Z.
PendingWithdrawals ==
    SumAmounts(SelectSeq(wlogs, LAMBDA l : l.block > latestState.ethBlockNumber))

\* Both submissions of every batch so far are confirmed.
BatchFinished ==
    /\ Len(updates) >= 1
    /\ Len(updates) = Len(ProgressTxs)
    /\ AllMined(ProgressTxs)

DepositInputs(tx) == {tx.ins[i] : i \in 3..Len(tx.ins)}

DepositOutPoints ==
    {op \in AllOutPoints(ztxs) : OutputAt(ztxs, op).mode = "DEPOSIT"}

Spenders(op) == {i \in 1..Len(ztxs) : op \in Range(ztxs[i].ins)}

\* The deposits mined at or below the Chain-Z watermark, in chain order.
AccountedDeposits == ExtractZecToEthTransfers(ztxs, 1, drv.last_z)

SubmittedDeposits ==
    Flatten([k \in 1..Len(updates) |-> updates[k].call.zecToEthTransfers])

\* The restarted driver holds the STF of a mined transition whose StateUpdate
\* was never submitted.
RecoveredPendingUpdate ==
    /\ restarts >= 1
    /\ Len(ProgressTxs) = Len(updates) + 1
    /\ drv.stf.op.txid[1] = "tx"
    /\ ztxs[drv.stf.op.txid[2]].kind = "progress"

\* ------------------------------------------------------------------ claims
\* C1 (as written): after each batch the deposits processed so far minus the
\* withdrawals processed so far equal the locked value of the STF output the
\* batch emits.
C1_NetEqualsLockedValue ==
    \A k \in 1..Len(ProgressTxs) : NetProcessed(k) = StfValueOfBatch(k)

\* C1 (amended): after each batch the locked value of the STF output the batch
\* emits is LOCK_IN_VALUE plus the deposits processed so far minus the
\* withdrawals processed so far.
C1_LockedValueIsLockInPlusNet ==
    \A k \in 1..Len(ProgressTxs) :
        StfValueOfBatch(k) = LOCK_IN_VALUE + NetProcessed(k)

C1_Witness ==
    /\ Len(ProgressTxs) >= 2
    /\ AllMined(ProgressTxs)
    /\ Payouts # <<>>
    /\ NetProcessed(Len(ProgressTxs)) > 0

\* C2: every StateUpdate the contract accepted is the update of a progress
\* transition that is already mined: the k-th update carries the transfers of
\* the k-th transition and reports its inclusion height.
C2_UpdateFollowsMinedTransition ==
    \A k \in 1..Len(updates) :
        /\ k <= Len(ProgressTxs)
        /\ ProgressTxs[k].height > 0
        /\ updates[k].call.newZecBlockNumber = ProgressTxs[k].height
        /\ updates[k].call.zecToEthTransfers = ProgressTxs[k].deposits
        /\ [i \in 1..Len(updates[k].call.ethToZecTransfers) |->
               [pubkey_hash |-> updates[k].call.ethToZecTransfers[i].pubkeyHash,
                amount |-> updates[k].call.ethToZecTransfers[i].amount]]
           = ProgressTxs[k].withdrawals

C2_Witness ==
    /\ Len(updates) >= 2
    /\ updates[1].call.zecToEthTransfers # <<>>
    /\ updates[2].call.ethToZecTransfers # <<>>

\* C3: when the driver is between batches, the deposits mined at or below its
\* Chain-Z watermark are exactly the deposits of the submitted StateUpdates,
\* each once, in chain order.
C3_DepositsInExactlyOneUpdate ==
    dpc = "scan" =>
        SubmittedDeposits =
            [i \in 1..Len(AccountedDeposits) |->
                [to |-> AccountedDeposits[i].transfer.eth_address,
                 amount |-> AccountedDeposits[i].transfer.amount]]

\* C4: the transparent payouts on Chain-Z, in chain order, are a prefix of the
\* WithdrawalRequested events in log order (same pubkey hash, same amount, none
\* twice), and every event at or below the Chain-E watermark is paid.
C4_PayoutsMatchRequests ==
    /\ IsPrefix(Payouts, Requests)
    /\ Cardinality({i \in 1..Len(wlogs) : wlogs[i].block <= drv.last_e}) <= Len(Payouts)

C4_Witness ==
    /\ Payouts # <<>>
    /\ AllMined(ProgressTxs)
    /\ restarts >= 1
    /\ dpc = "scan"

C7_DepositConsumedAtMostOnce ==
    /\ \A op \in DepositOutPoints :
          /\ Cardinality(Spenders(op)) <= 1
          /\ \A i \in Spenders(op) : ztxs[i].kind = "progress"
    /\ \A a, b \in 1..Len(BuiltProgress) :
          a < b => DepositInputs(BuiltProgress[a]) \cap DepositInputs(BuiltProgress[b]) = {}

C7_Witness ==
    /\ RecoveredPendingUpdate
    /\ dpc = "aborted"
    /\ \E op \in DepositOutPoints : Spenders(op) # {}

\* C8 (as written): after each batch finishes the locked value of the current
\* STF output equals the total supply of the wrapped token.
C8_LockedEqualsSupply ==
    BatchFinished =>
        \A op \in UnspentAnchors : OutputAt(ztxs, op).value = TotalSupply

\* C8 (amended): after each batch finishes the locked value of the current STF
\* output equals LOCK_IN_VALUE plus the total supply of the wrapped token plus
\* the withdrawals requested since the last update and not yet paid.
C8_LockedEqualsLockInPlusSupplyPlusPending ==
    BatchFinished =>
        /\ Cardinality(UnspentAnchors) = 1
        /\ \A op \in UnspentAnchors :
              OutputAt(ztxs, op).value =
                  LOCK_IN_VALUE + TotalSupply + PendingWithdrawals

C8_Witness ==
    /\ BatchFinished
    /\ TotalSupply > 0
    /\ PendingWithdrawals > 0

\* C9: the driver builds the progress transaction of a batch only when every
\* earlier transition is mined and its StateUpdate accepted.
C9_BatchesSerialized ==
    [][Len(BuiltProgress') > Len(BuiltProgress) =>
          /\ Len(updates) = Len(ProgressTxs)
          /\ AllMined(ProgressTxs)]_vars

C9_Witness ==
    /\ Len(BuiltProgress) >= 2
    /\ Len(updates) >= 1

\* C10: the scan watermarks never pass an event that no batch included: every
\* deposit mined at or below the Chain-Z watermark is consumed by a transition
\* and every withdrawal requested at or below the Chain-E watermark is paid.
C10_WatermarksNeverPassUnbatched ==
    /\ \A i \in 1..Len(AccountedDeposits) : IsSpent(ztxs, AccountedDeposits[i].op)
    /\ Cardinality({i \in 1..Len(wlogs) : wlogs[i].block <= drv.last_e}) <= Len(Payouts)

\* C12: whenever the contract accepts a StateUpdate, wait_for_tx has returned
\* for the progress transition of the batch, and the update's new Chain-Z block
\* number is the height at which that transition is mined.
C12_NewZecBlockIsMinedHeight ==
    [][Len(updates') > Len(updates) =>
          /\ WaitForTxReturns(ztxs, drv.batch.txid)
          /\ ztxs[drv.batch.txid[2]].kind = "progress"
          /\ updates'[Len(updates')].call.newZecBlockNumber
                = TxHeightOf(ztxs', drv.batch.txid)]_vars

C12_Witness ==
    /\ Len(updates) >= 1
    /\ updates[Len(updates)].call.newZecBlockNumber > InitZHeight
    /\ updates[Len(updates)].call.newZecBlockNumber < zHeight

\* ------------------------------------------------------------------ observations: one sender
DepositOuts(deposits) == [i \in 1..Len(deposits) |-> deposits[i].out]

\* The value of the node's outputs a transaction spends.
InputValue(tx) == SumValues([i \in 1..Len(tx.ins) |-> OutputAt(ztxs, tx.ins[i])])

ProgressSucceeded == lastOp.kind = "progress" /\ lastOp.res = "ok"

\* C13: a successful progress_tze_stf spends the previous STF output and the
\* deposit outputs it was given and emits an STF output whose value is the
\* value of the previous STF output plus the values of the deposits minus the
\* amounts of the withdrawals.
C13_ProgressStfValue ==
    ProgressSucceeded =>
        /\ lastOp.tx.ins = <<FeeInput(lastOp.before), lastOp.prevout.op>>
                             \o [i \in 1..Len(lastOp.deposits) |-> lastOp.deposits[i].op]
        /\ lastOp.out.t = "tze" /\ lastOp.out.mode = "STF"
        /\ OutputAt(ztxs, lastOp.outpoint) = lastOp.out
        /\ lastOp.out.value = lastOp.prevout.out.value
                                + SumValues(DepositOuts(lastOp.deposits))
                                - SumAmounts(lastOp.withdrawals)

\* Deposits of 1000 and 2500 and a withdrawal of 1500 grow the locked value by 2000.
C13_Witness ==
    /\ ProgressSucceeded
    /\ {lastOp.deposits[i].out.value : i \in 1..Len(lastOp.deposits)} = {1000, 2500}
    /\ Len(lastOp.deposits) = 2
    /\ lastOp.withdrawals = <<[pubkey_hash |-> "k1", amount |-> 1500]>>
    /\ lastOp.out.value = lastOp.prevout.out.value + 2000
    /\ lastOp.out.value = LOCK_IN_VALUE + 2000

\* The index the operation gives the outpoint it returns.
ReturnedIndex == IF lastOp.kind = "progress" THEN 1 + Len(lastOp.withdrawals) ELSE 1

\* C14: in every transaction a sender builds, output 0 is the fee change to
\* the miner key and no transparent output follows a TZE output; a progress
\* transaction with k withdrawals pays them at outputs 1..k in list order and
\* has the new STF output at index 1 + k; a create, deposit or init
\* transaction has its TZE output at index 1; the outpoint returned is the
\* output of that index of the transaction sent.
C14_OutputOrdering ==
    lastOp.built =>
        LET outs == lastOp.tx.outs
            k    == IF lastOp.kind = "progress" THEN Len(lastOp.withdrawals) ELSE 0
        IN  /\ Len(outs) = k + 2
            /\ outs[1].t = "p2pkh" /\ outs[1].to = "miner"
            /\ \A i \in 1..Len(outs), j \in 1..Len(outs) :
                   (i < j /\ outs[i].t = "tze") => outs[j].t = "tze"
            /\ \A i \in 1..k :
                   outs[1 + i] = TxOut(lastOp.withdrawals[i].pubkey_hash,
                                       lastOp.withdrawals[i].amount)
            /\ outs[ReturnedIndex + 1].t = "tze"
            /\ outs[ReturnedIndex + 1].mode =
                   (CASE lastOp.kind = "create" -> "CREATE"
                      [] lastOp.kind = "deposit" -> "DEPOSIT"
                      [] OTHER -> "STF")
            /\ lastOp.res = "ok" =>
                   /\ lastOp.outpoint.n = ReturnedIndex
                   /\ [ztxs[lastOp.outpoint.txid[2]] EXCEPT !.height = 0] = lastOp.tx
                   /\ OutputAt(ztxs, lastOp.outpoint) = lastOp.out
                   /\ lastOp.out = outs[ReturnedIndex + 1]

C14_Witness ==
    /\ ProgressSucceeded
    /\ Len(lastOp.withdrawals) = 2
    /\ lastOp.withdrawals[1] # lastOp.withdrawals[2]
    /\ lastOp.outpoint.n = 3
    /\ lastOp.deposits # <<>>

OpSent == lastOp.kind \in {"create", "deposit", "init", "progress"} /\ lastOp.res = "ok"
OpFailed == lastOp.res \in {"err", "panic"}

\* C15: every transaction a sender builds spends output 0 of the transaction
\* recorded in fee_txid; after a successful send fee_txid is the transaction
\* just sent, whose output 0 is its fee change; a new sender starts from the
\* coinbase of the block MIN_TRANSPARENT_COINBASE_MATURITY below the target
\* height; a failed operation leaves fee_txid as it was.
C15_FeeInputRotation ==
    /\ snd.fee_txid = lastOp.after.fee_txid
    /\ lastOp.built =>
           lastOp.tx.ins[1] = [txid |-> lastOp.before.fee_txid, n |-> 0]
    /\ OpSent =>
           /\ lastOp.after.fee_txid = <<"tx", Len(ztxs)>>
           /\ [ztxs[Len(ztxs)] EXCEPT !.height = 0] = lastOp.tx
           /\ OutputAt(ztxs, [txid |-> snd.fee_txid, n |-> 0]) = lastOp.tx.outs[1]
           /\ lastOp.tx.outs[1].to = "miner"
    /\ lastOp.kind = "new" =>
           /\ lastOp.after.fee_txid[1] = "cb"
           /\ (lastOp.height + 1) - lastOp.after.fee_txid[2]
                 = MIN_TRANSPARENT_COINBASE_MATURITY
    /\ OpFailed => lastOp.after.fee_txid = lastOp.before.fee_txid

\* The second transaction of a sender pays its fee from the change of the first.
C15_Witness ==
    /\ OpSent
    /\ Len(ztxs) >= 2
    /\ lastOp.tx.ins[1] = [txid |-> <<"tx", Len(ztxs) - 1>>, n |-> 0]
    /\ ztxs[Len(ztxs) - 1].ins[1].txid = CoinbaseTxid(InitZHeight + 2 - MIN_TRANSPARENT_COINBASE_MATURITY)

\* The value of the fee coin the operation found.
FeeCoinValue == OutputAt(ztxs, [txid |-> lastOp.before.fee_txid, n |-> 0]).value

\* C16: in every transaction a sender builds, of any of the four kinds, the
\* values of the inputs minus the values of the outputs are exactly the fee;
\* when the fee exceeds the fee coin, so that the fee change would be
\* negative, the operation fails and builds and submits nothing.
C16_ValueConservation ==
    /\ lastOp.built =>
           /\ InputValue(lastOp.tx) - SumValues(lastOp.tx.outs) = lastOp.fee
           /\ \A i \in 1..Len(lastOp.tx.outs) : lastOp.tx.outs[i].value >= 0
    /\ (lastOp.kind \in {"create", "deposit", "init", "progress"}
          /\ lastOp.fee > FeeCoinValue) =>
           /\ OpFailed
           /\ ~lastOp.built
           /\ lastOp.tx = NoTx

C16_Witness ==
    /\ lastOp.kind = "progress"
    /\ lastOp.built
    /\ lastOp.deposits # <<>>
    /\ lastOp.withdrawals # <<>>
    /\ Len(lastOp.tx.ins) >= 3
    /\ InputValue(lastOp.tx) - SumValues(lastOp.tx.outs) = DRIVER_FEE

\* C17: when send_tze_create or progress_tze_stf returns an error because the
\* builder rejected an input or an output, the sender's deposited counter has
\* the value it had when the operation was called.
C17_BuildFailureUnwindsDeposited ==
    (lastOp.kind \in {"create", "progress"} /\ lastOp.res = "err") =>
        /\ lastOp.after.deposited = lastOp.before.deposited
        /\ snd.deposited = lastOp.before.deposited

\* C18: a transaction whose submission fails once, while the node would take
\* it, is submitted again and the operation succeeds.
C18_SendFailureIsRetried ==
    (lastOp.built /\ lastOp.fault = "send" /\ NodeAccepts(ztxs, zHeight, lastOp.tx)) =>
        lastOp.res = "ok"

\* What a progress transition has to pay its withdrawals from: the value of
\* the STF output it consumes, and that value plus the deposits it consumes.
LockedBefore == lastOp.prevout.out.value
LockedWithDeposits == LockedBefore + SumValues(DepositOuts(lastOp.deposits))

NothingSubmitted == OpFailed /\ ~lastOp.built /\ lastOp.tx = NoTx

\* C19 as stated: a progress transition with a withdrawal above the value of
\* the STF output it consumes fails, and nothing is built or submitted.
C19_WithdrawalAboveLockedIsFatal ==
    (lastOp.kind = "progress"
       /\ \E i \in 1..Len(lastOp.withdrawals) :
              lastOp.withdrawals[i].amount > LockedBefore) =>
        NothingSubmitted

\* C19, amended: a progress transition with a withdrawal above the value of
\* the STF output it consumes plus the values of the deposits it consumes
\* fails, fatally unless the builder returned an error first, and nothing is
\* built or submitted.
C19_WithdrawalAboveLockedAndDepositsIsFatal ==
    (lastOp.kind = "progress"
       /\ \E i \in 1..Len(lastOp.withdrawals) :
              lastOp.withdrawals[i].amount > LockedWithDeposits) =>
        /\ NothingSubmitted
        /\ lastOp.fault = "none" => lastOp.res = "panic"
        /\ snd.fee_txid = lastOp.before.fee_txid

C19_Witness ==
    /\ lastOp.kind = "progress"
    /\ lastOp.fault = "none"
    /\ lastOp.fee = DRIVER_FEE
    /\ lastOp.before.deposited = LockedBefore
    /\ LockedBefore = LOCK_IN_VALUE
    /\ lastOp.withdrawals = <<[pubkey_hash |-> "k1", amount |-> 101000]>>
    /\ lastOp.deposits = <<>>
    /\ lastOp.res = "panic"

C21_DepositedIsLockedValue ==
    dpc = "scan" =>
        /\ drv.stf.op \in UnspentStfOnChain(ztxs)
        /\ snd.deposited = OutputAt(ztxs, drv.stf.op).value

\* ------------------------------------------------------------------ observations: function calls
\* The places <<block, transaction, output>> of the deposits of the bridge in
\* a list of blocks, and the order of the places.
DepositPlaces(blocks) ==
    {p \in UNION {UNION {{<<b, t, n>> : n \in 1..Len(blocks[b][t].outs)} :
                            t \in 1..Len(blocks[b])} : b \in 1..Len(blocks)} :
        LET o == blocks[p[1]][p[2]].outs[p[3]]
        IN  /\ o.t = "tze"
            /\ o.ext = EXTENSION_ETH_BRIDGE
            /\ o.mode = "DEPOSIT"
            /\ FromPayload(o).kind = "Deposit"}

PlaceBefore(p, q) ==
    \/ p[1] < q[1]
    \/ p[1] = q[1] /\ p[2] < q[2]
    \/ p[1] = q[1] /\ p[2] = q[2] /\ p[3] < q[3]

\* C22: extract_zec_to_eth_transfers returns, without error, one entry per
\* output that is a TZE output of the bridge extension whose payload decodes as
\* a deposit, and no other; the entries are in block, transaction, output
\* order; each entry's transfer and outpoint are those of its output, with the
\* amount equal to the value.
C22_ExtractsExactlyTheDeposits ==
    libCall.fn = "extract_zec_to_eth_transfers" =>
        LET blocks == libCall.args[1]
            places == DepositPlaces(blocks)
            rank(p) == 1 + Cardinality({q \in places : PlaceBefore(q, p)})
        IN  /\ libCall.res = "ok"
            /\ Len(libCall.ret) = Cardinality(places)
            /\ \A p \in places :
                   LET tx == blocks[p[1]][p[2]]
                       e  == libCall.ret[rank(p)]
                   IN  /\ e.op = [txid |-> tx.hash, n |-> p[3] - 1]
                       /\ e.out = tx.outs[p[3]]
                       /\ e.transfer.amount = e.out.value
                       /\ e.transfer.eth_address = e.out.to

\* Two valid deposits around a garbled one, in two blocks.
C22_Witness ==
    /\ libCall.fn = "extract_zec_to_eth_transfers"
    /\ Len(libCall.args[1]) = 2
    /\ Len(libCall.args[1][1]) = 2 /\ Len(libCall.args[1][2]) = 1
    /\ libCall.args[1][1][1].outs = <<TxOut("miner", 7), TzeOut("DEPOSIT", "e2", 2500)>>
    /\ libCall.args[1][1][2].outs = <<TxOut("miner", 7), TzeOut("DEPOSIT", "garbled", 300)>>
    /\ libCall.args[1][2][1].outs = <<TxOut("miner", 7), TzeOut("DEPOSIT", "e1", 1000)>>
    /\ Len(libCall.ret) = 2
    /\ libCall.ret[1].transfer = [eth_address |-> "e2", amount |-> 2500]
    /\ libCall.ret[2].transfer = [eth_address |-> "e1", amount |-> 1000]

\* The confirmed UTXOs no mempool input names, and the places <<transaction,
\* output>> of the mempool outputs that pay the address.
KeptConfirmed(confirmed, mempool) ==
    {u \in 1..Len(confirmed) :
        ~\E m \in 1..Len(mempool) :
            [hash |-> confirmed[u].txid, n |-> confirmed[u].index] \in Range(mempool[m].vin)}

PayingPlaces(mempool, address) ==
    {p \in UNION {{<<m, k>> : k \in 1..Len(mempool[m].vout)} : m \in 1..Len(mempool)} :
        mempool[p[1]].vout[p[2]].recipient = address}

\* C23: get_address_utxos_with_mempool returns the confirmed UTXOs that no
\* input of a mempool transaction spends, in their order, followed by one UTXO
\* of height 0 for every mempool output that pays the address, and nothing else.
C23_ConfirmedMinusSpentPlusMempool ==
    (libCall.fn = "get_address_utxos_with_mempool"
       /\ \A m \in 1..Len(libCall.args[2]) : libCall.args[2][m].fetch = "ok") =>
        LET confirmed == libCall.args[1]
            mempool   == libCall.args[2]
            address   == libCall.args[3]
            kept      == KeptConfirmed(confirmed, mempool)
            paying    == PayingPlaces(mempool, address)
            rankKept(u) == 1 + Cardinality({v \in kept : v < u})
            rankPaid(p) == Cardinality(kept) + 1
                           + Cardinality({q \in paying :
                                 q[1] < p[1] \/ (q[1] = p[1] /\ q[2] < p[2])})
        IN  /\ libCall.res = "ok"
            /\ Len(libCall.ret) = Cardinality(kept) + Cardinality(paying)
            /\ \A u \in kept : libCall.ret[rankKept(u)] = confirmed[u]
            /\ \A p \in paying :
                   LET e == libCall.ret[rankPaid(p)]
                   IN  /\ e.height = 0
                       /\ e.address = address
                       /\ e.txid = DecodedTxid(mempool[p[1]].id)
                       /\ e.index = p[2] - 1
                       /\ e.value = mempool[p[1]].vout[p[2]].value

\* Three confirmed UTXOs, one of them spent by a mempool transaction that also
\* pays the address twice.
C23_Witness ==
    /\ libCall.fn = "get_address_utxos_with_mempool"
    /\ Len(libCall.args[1]) = 3
    /\ Len(libCall.args[2]) = 2
    /\ libCall.args[2][1].id = "m4"
    /\ Len(libCall.ret) = 4
    /\ libCall.ret[1].index = 0 /\ libCall.ret[2].index = 0
    /\ libCall.ret[3].height = 0 /\ libCall.ret[3].value = 80
    /\ libCall.ret[4].height = 0 /\ libCall.ret[4].value = 90

\* ------------------------------------------------------------------ observations: round trip
\* The batches k that process one deposit and nothing else and are followed by
\* a batch that processes one withdrawal of the same amount and nothing else.
RoundTrips ==
    {k \in 1..(Len(ProgressTxs) - 1) :
        /\ Len(ProgressTxs[k].deposits) = 1
        /\ ProgressTxs[k].withdrawals = <<>>
        /\ ProgressTxs[k + 1].deposits = <<>>
        /\ Len(ProgressTxs[k + 1].withdrawals) = 1
        /\ ProgressTxs[k + 1].withdrawals[1].amount = ProgressTxs[k].deposits[1].amount}

\* The locked value of the STF output that batch k consumes.
StfValueBeforeBatch(k) == OutputAt(ztxs, ProgressTxs[k].ins[2]).value

\* The wrapped balance the contract held for a before update k: what the
\* earlier updates minted to a minus what the earlier batches paid out.
BalanceBeforeBatch(k, a) ==
    MintedTo(Flatten([j \in 1..(k - 1) |-> updates[j].call.zecToEthTransfers]), a)
    - SumAmounts(Flatten([j \in 1..(k - 1) |-> ProgressTxs[j].withdrawals]))

\* C24: a batch that processes a deposit of X followed by a batch that
\* processes a withdrawal of X emits an STF output of the value the STF had
\* before the deposit (LOCK_IN_VALUE right after deploy) and pays exactly X to
\* the named public-key hash; once both updates are accepted and every request
\* is paid, the depositor's wrapped balance is what it was before the deposit.
C24_RoundTrip ==
    \A k \in RoundTrips :
        /\ StfValueOfBatch(k) = StfValueBeforeBatch(k) + ProgressTxs[k].deposits[1].amount
        /\ StfValueOfBatch(k + 1) = StfValueBeforeBatch(k)
        /\ ztxs[ProgressTxs[k].ins[2].txid[2]].kind = "init"
               => StfValueOfBatch(k + 1) = LOCK_IN_VALUE
        /\ PayoutsOf(ProgressTxs[k + 1]) =
               <<[pubkey_hash |-> ProgressTxs[k + 1].withdrawals[1].pubkey_hash,
                  amount |-> ProgressTxs[k].deposits[1].amount]>>
        /\ (Len(updates) = k + 1 /\ Len(wlogs) = Len(Payouts)) =>
               wzec[ProgressTxs[k].deposits[1].to]
                   = BalanceBeforeBatch(k, ProgressTxs[k].deposits[1].to)

\* Deposit, batch, withdrawal request, batch: both transitions mined and both
\* updates accepted.
C24_Witness ==
    /\ 1 \in RoundTrips
    /\ AllMined(ProgressTxs)
    /\ Len(updates) = 2
    /\ StfValueOfBatch(1) > LOCK_IN_VALUE
    /\ StfValueOfBatch(2) = LOCK_IN_VALUE
    /\ TotalSupply = 0

\* ------------------------------------------------------------------ observations: empty batch
\* A step of the driver loop taken from the scan state.
DriverIterates ==
    /\ dpc = "scan"
    /\ restarts' = restarts
    /\ <<dpc', drv', snd'>> # <<dpc, drv, snd>>

\* Nothing to collect: no deposit mined and no withdrawal requested above the
\* watermarks, up to the heights the iteration snapshots.
NothingNew ==
    /\ ExtractZecToEthTransfers(ztxs, drv.last_z + 1, zHeight) = <<>>
    /\ SelectSeq(wlogs, LAMBDA l : l.block > drv.last_e /\ l.block <= eHeight) = <<>>

\* C25: a driver iteration that finds no new deposit and no new withdrawal, also
\* when no new block exists on either chain, submits nothing to either chain,
\* does not abort, and changes only the scan watermarks.
C25_EmptyBatchOnlyMovesWatermarks ==
    [][(DriverIterates /\ NothingNew) =>
          /\ dpc' = "scan"
          /\ ztxs' = ztxs /\ built' = built /\ updates' = updates
          /\ snd' = snd
          /\ drv' = [drv EXCEPT !.last_z = zHeight, !.last_e = eHeight]]_vars

\* ------------------------------------------------------------------ observations: deploy
\* The transactions of a kind the node holds.
TxsOfKind(txs, kind) == {i \in 1..Len(txs) : txs[i].kind = kind}

\* deploy submits the CREATE transaction: the first and only one.
DeploySubmitsCreate ==
    (dpc = "init" /\ dpc' = "create_wait") =>
        /\ TxsOfKind(ztxs, "create") = {} /\ TxsOfKind(ztxs, "init") = {}
        /\ ztxs' = Append(ztxs, ztxs'[Len(ztxs')])
        /\ ztxs'[Len(ztxs')].kind = "create"
        /\ drv'.stf.op = [txid |-> <<"tx", Len(ztxs')>>, n |-> 1]

\* deploy leaves its first wait only when the CREATE transaction is mined, and
\* the init transaction it then submits consumes the CREATE output.
DeploySubmitsInitAfterCreateMined ==
    /\ (dpc = "create_wait" /\ dpc' # "create_wait") =>
           /\ ztxs[drv.stf.op.txid[2]].kind = "create"
           /\ ztxs[drv.stf.op.txid[2]].height > 0
    /\ (dpc = "create_wait" /\ dpc' = "init_wait") =>
           /\ TxsOfKind(ztxs, "init") = {}
           /\ ztxs' = Append(ztxs, ztxs'[Len(ztxs')])
           /\ ztxs'[Len(ztxs')].kind = "init"
           /\ drv.stf.op \in Range(ztxs'[Len(ztxs')].ins)
           /\ OutputAt(ztxs, drv.stf.op).mode = "CREATE"
    /\ TxsOfKind(ztxs', "init") # TxsOfKind(ztxs, "init") => dpc = "create_wait"
    /\ TxsOfKind(ztxs', "create") # TxsOfKind(ztxs, "create") => dpc = "init"

\* deploy returns: the init transaction is mined, and the result is its output
\* at index 1, an STF output of LOCK_IN_VALUE.
DeployReturnsStf ==
    (dpc = "init_wait" /\ dpc' # "init_wait") =>
        /\ dpc' = "scan"
        /\ ztxs' = ztxs
        /\ ztxs[drv'.stf.op.txid[2]].kind = "init"
        /\ ztxs[drv'.stf.op.txid[2]].height > 0
        /\ drv'.stf.op.n = 1
        /\ drv'.stf.out = OutputAt(ztxs, drv'.stf.op)
        /\ drv'.stf.out.mode = "STF"
        /\ drv'.stf.out.value = LOCK_IN_VALUE
        /\ snd'.deposited = LOCK_IN_VALUE
        /\ Cardinality(TxsOfKind(ztxs, "create")) = 1
        /\ Cardinality(TxsOfKind(ztxs, "init")) = 1

\* C26: deploy submits the CREATE transaction, waits until it is mined, only
\* then submits the init transaction that consumes the CREATE output, waits
\* until it is mined, and returns the outpoint at index 1 of the init
\* transaction, an STF output of value LOCK_IN_VALUE, with deposited equal to
\* LOCK_IN_VALUE; one CREATE and one init transaction are ever submitted.
C26_DeployInTwoOrderedSteps ==
    [][DeploySubmitsCreate /\ DeploySubmitsInitAfterCreateMined /\ DeployReturnsStf]_vars

\* deploy has just returned: CREATE and init mined in different blocks.
C26_Witness ==
    /\ dpc = "scan" /\ restarts = 0 /\ ProgressTxs = <<>>
    /\ TxsOfKind(ztxs, "create") = {1}
    /\ \E i \in TxsOfKind(ztxs, "init") :
          /\ ztxs[i].height > ztxs[1].height
          /\ ztxs[1].height > 0
          /\ drv.stf.op = [txid |-> <<"tx", i>>, n |-> 1]
    /\ snd.deposited = LOCK_IN_VALUE

\* ------------------------------------------------------------------ observations: wait_for_tx
\* The node holds the transaction on the main chain at a height above 0.
OnMainChain(txid) == KnownTx(ztxs, 0, txid) /\ TxHeightOf(ztxs, txid) > 0

\* A poll that returns: the call was answered, the transaction was on the main
\* chain at a height above 0, and that height is the result.
ReturnsOnlyMinedHeight ==
    (wait.pc = "polling" /\ wait'.pc # "polling") =>
        /\ wait'.pc = "returned"
        /\ OnMainChain(wait.txid)
        /\ wait'.answer.kind = "Object"
        /\ wait'.ret = TxHeightOf(ztxs, wait.txid)
        /\ wait'.ret > 0

\* A poll that is answered for a transaction on the main chain returns; every
\* other poll leaves the call polling, whatever the number of polls so far.
PollsUntilMined ==
    (wait.pc = "polling" /\ wait' # wait) =>
        (wait'.pc = "returned" <=> (wait'.answer.kind = "Object" /\ OnMainChain(wait.txid)))

\* C27: wait_for_tx has no maximum number of attempts: a poll leaves it polling
\* while the call fails or the transaction is unknown, in the mempool or on a
\* side chain, and returns the height h exactly when the node reports the
\* transaction on the main chain at h > 0; if the transaction is mined for
\* good and answered polls are fairly scheduled, the call returns.
C27_WaitForTxPollsUntilMined ==
    /\ [][ReturnsOnlyMinedHeight /\ PollsUntilMined]_vars
    /\ [](wait.pc = "polling" => ENABLED WPoll(TRUE))
    /\ (<>[](wait.pc # "idle" /\ OnMainChain(WaitedTxid))) => <>(wait.pc = "returned")

\* The call has polled as often as is counted, with the transaction in the
\* mempool again after a reorganisation, and is still polling.
C27_Witness ==
    /\ wait.pc = "polling"
    /\ wait.polls = MaxPolls
    /\ wait.answer.kind = "Object" /\ wait.answer.height = <<>>
    /\ zHeight > InitZHeight
    /\ ztxs # <<>> /\ ztxs[1].height = 0

\* ------------------------------------------------------------------ observations: mixed batch
\* The last call is a progress transition with deposits and withdrawals, made
\* with the driver's fee, no builder error, and a sender whose counter is the
\* value of the STF output consumed.
MixedBatch ==
    /\ lastOp.kind = "progress"
    /\ lastOp.deposits # <<>> /\ lastOp.withdrawals # <<>>
    /\ lastOp.fault = "none" /\ lastOp.fee = DRIVER_FEE
    /\ lastOp.before.deposited = LockedBefore

\* The node would take the inputs of the last call: each exists, is unspent
\* and is named once, and the fee coin is mature.
InputsSpendable ==
    NodeAccepts(ztxs, lastOp.height,
                [ins |-> <<FeeInput(lastOp.before), lastOp.prevout.op>>
                         \o [i \in 1..Len(lastOp.deposits) |-> lastOp.deposits[i].op],
                 outs |-> <<>>])

\* C28: a progress transition with deposits and withdrawals succeeds whenever
\* the value of the STF output it consumes plus the values of its deposits is
\* at least the sum of its withdrawals, also when the withdrawals exceed the
\* prior value alone; the new STF output holds the difference.
C28_DepositsAccountedFirst ==
    (MixedBatch
       /\ LockedWithDeposits >= SumAmounts(lastOp.withdrawals)
       /\ (lastOp.res # "ok" => InputsSpendable)) =>
        /\ lastOp.res = "ok"
        /\ lastOp.out.value = LockedWithDeposits - SumAmounts(lastOp.withdrawals)
        /\ lastOp.after.deposited = lastOp.out.value

\* A withdrawal of 101000 from an STF of 100000, covered by a deposit of the
\* same batch.
C28_Witness ==
    /\ MixedBatch
    /\ LockedBefore = LOCK_IN_VALUE
    /\ lastOp.withdrawals = <<[pubkey_hash |-> "k1", amount |-> 101000]>>
    /\ SumAmounts(lastOp.withdrawals) > LockedBefore
    /\ lastOp.res = "ok"
    /\ lastOp.out.value < LOCK_IN_VALUE
    /\ ztxs[Len(ztxs)] = lastOp.tx

\* C29: send_tze_deposit and initialize_tze_stf leave the deposited counter as
\* it was, whether they succeed, return an error or panic; a call that changes
\* the counter is a send_tze_create or a progress_tze_stf.
C29_DepositAndInitKeepDeposited ==
    /\ lastOp.kind \in {"deposit", "init"} =>
           /\ lastOp.after.deposited = lastOp.before.deposited
           /\ snd.deposited = lastOp.before.deposited
    /\ (lastOp.kind \notin {"none", "new"}
          /\ lastOp.after.deposited # lastOp.before.deposited) =>
           lastOp.kind \in {"create", "progress"}

\* A sender that has sent its CREATE transaction sends a deposit.
C29_Witness ==
    /\ lastOp.kind = "deposit"
    /\ lastOp.res = "ok"
    /\ lastOp.out.value > 0
    /\ lastOp.before.deposited = LOCK_IN_VALUE
    /\ snd.deposited = LOCK_IN_VALUE

\* The places in the node's logs of the withdrawal requests of the bridge in
\* the blocks from the first to the last block given.
RequestPlaces(logs, blocks) ==
    {i \in 1..Len(logs) :
        /\ logs[i].address = "bridge"
        /\ logs[i].topic0 = "WithdrawalRequested"
        /\ logs[i].block >= blocks[1]
        /\ logs[i].block <= blocks[Len(blocks)]}

\* C30: for a non-empty list of blocks and a node that answers,
\* extract_eth_to_zec_transfers returns one transfer per WithdrawalRequested
\* log of the bridge in the blocks from the first to the last, in log order,
\* with the pubkey hash and the amount of the log; when a log of these has an
\* amount that does not fit in 64 bits the call is fatal, and no transfer
\* returned has an amount other than the whole amount of its log.
C30_OneTransferPerRequestOrFatal ==
    (libCall.fn = "extract_eth_to_zec_transfers"
       /\ libCall.args[2] # <<>> /\ ~libCall.args[3]) =>
        LET logs   == libCall.args[1]
            places == RequestPlaces(logs, libCall.args[2])
            rank(i) == 1 + Cardinality({j \in places : j < i})
        IN  IF \E i \in places : logs[i].amount.hi # 0
            THEN libCall.res = "panic" /\ libCall.ret = <<>>
            ELSE /\ libCall.res = "ok"
                 /\ Len(libCall.ret) = Cardinality(places)
                 /\ \A i \in places :
                        /\ libCall.ret[rank(i)].pubkey_hash = logs[i].pubkey_hash
                        /\ libCall.ret[rank(i)].amount = logs[i].amount.lo
                        /\ logs[i].amount.hi = 0

\* Two requests in the range are returned in log order; a request outside the
\* range and a log of another contract are not.
C30_Witness ==
    /\ libCall.fn = "extract_eth_to_zec_transfers"
    /\ libCall.args[2] = <<1, 2>>
    /\ Len(libCall.args[1]) = 3
    /\ libCall.args[1][3].block = 3
    /\ libCall.res = "ok"
    /\ libCall.ret = <<[pubkey_hash |-> "k1", amount |-> 1000],
                       [pubkey_hash |-> "k2", amount |-> 2500]>>

\* ------------------------------------------------------------------ observations: mempool view
\* The mempool listing without the transactions the node fails to give.
WithoutUnfetched(mempool) == SelectSeq(mempool, LAMBDA t : t.fetch = "ok")

\* C31: a mempool transaction that cannot be fetched or parsed is skipped:
\* the call succeeds and returns what it returns for the listing without
\* that transaction.
C31_UnfetchedMempoolTxIsSkipped ==
    (libCall.fn = "get_address_utxos_with_mempool"
       /\ \E m \in 1..Len(libCall.args[2]) : libCall.args[2][m].fetch # "ok") =>
        /\ libCall.res = "ok"
        /\ libCall.ret = GetAddressUtxosWithMempool(libCall.args[1],
                              WithoutUnfetched(libCall.args[2]), libCall.args[3])
        /\ \A e \in Range(libCall.ret) :
               e.height = 0 =>
                  \E m \in 1..Len(libCall.args[2]) :
                     /\ libCall.args[2][m].fetch = "ok"
                     /\ e.txid = DecodedTxid(libCall.args[2][m].id)
        /\ \A u \in Range(libCall.args[1]) :
               (\A m \in 1..Len(libCall.args[2]) :
                   libCall.args[2][m].fetch = "ok" =>
                      [hash |-> u.txid, n |-> u.index] \notin Range(libCall.args[2][m].vin))
               => u \in Range(libCall.ret)

\* A transaction that spends a confirmed UTXO and pays the address does not
\* parse: the UTXO stays, the outputs are not listed; the next transaction is
\* taken in.
C31_Witness ==
    /\ libCall.fn = "get_address_utxos_with_mempool"
    /\ Len(libCall.args[2]) = 2
    /\ libCall.args[2][1].id = "m4" /\ libCall.args[2][1].fetch = "unparsable"
    /\ libCall.args[2][2].id = "m2" /\ libCall.args[2][2].fetch = "ok"
    /\ Len(libCall.args[1]) = 3
    /\ libCall.res = "ok"
    /\ Len(libCall.ret) = 3
    /\ libCall.ret[3].height = 0 /\ libCall.ret[3].value = 70

\* The hash under which the inputs of other transactions name the outputs of
\* the mempool transaction listed under id.
HashOfListed(id) == <<"hash", id>>

\* Input `input` spends the returned UTXO e: a confirmed one is named by its
\* txid, one made from a mempool transaction by the hash of that transaction.
SpendsUtxo(input, e) ==
    /\ input.n = e.index
    /\ \/ input.hash = e.txid
       \/ \E t \in MempoolTxChoices :
             e.height = 0 /\ e.txid = DecodedTxid(t.id) /\ input.hash = HashOfListed(t.id)

\* C32: no UTXO returned by get_address_utxos_with_mempool, confirmed or made
\* from a mempool transaction, is spent by an input of a mempool transaction
\* (here: of one the node gave in full).
C32_ReturnedUtxosUnspentInMempool ==
    (libCall.fn = "get_address_utxos_with_mempool"
       /\ \A m \in 1..Len(libCall.args[2]) : libCall.args[2][m].fetch = "ok") =>
        \A e \in Range(libCall.ret) :
           \A m \in 1..Len(libCall.args[2]) : \A i \in 1..Len(libCall.args[2][m].vin) :
              ~SpendsUtxo(libCall.args[2][m].vin[i], e)

\* ------------------------------------------------------------------ observations: dust floor
\* C33: the STF output a successful progress_tze_stf emits has a value of
\* at least LOCK_IN_VALUE.
C33_StfValueAtLeastLockIn ==
    ProgressSucceeded => lastOp.out.value >= LOCK_IN_VALUE

\* ------------------------------------------------------------------ observations: fee inputs
\* The fee input of every transaction the node has taken.
FeeInputsUsed == [i \in 1..Len(ztxs) |-> ztxs[i].ins[1]]

\* C34: over any sequence of operations of a sender, failed ones included, no
\* outpoint is the fee input of two transactions the node has taken; after
\* every successful operation the fee coin the sender holds is a fresh
\* outpoint that nothing spends.
C34_FeeInputUsedOnce ==
    /\ \A i \in 1..Len(ztxs), j \in 1..Len(ztxs) :
          i # j => FeeInputsUsed[i] # FeeInputsUsed[j]
    /\ OpSent =>
          /\ FeeInputsUsed[Len(ztxs)] = FeeInput(lastOp.before)
          /\ ~IsSpent(ztxs, FeeInput(lastOp.after))
    /\ (OpFailed /\ lastOp.res = "err") => lastOp.after.fee_txid = lastOp.before.fee_txid

\* The fifth call sends the fourth transaction: the call that sent nothing
\* is a progress_tze_stf that failed after its deposit loop (the counter is
\* above the locked value and the node holds no progress transition), and the
\* call after it spends the fee change of the third transaction.
C34_Witness ==
    /\ OpSent /\ lastOp.n = 5 /\ Len(ztxs) = 4
    /\ \A i \in 1..Len(ztxs) : ztxs[i].kind # "progress"
    /\ lastOp.before.deposited > LOCK_IN_VALUE
    /\ FeeInputsUsed[1].txid[1] = "cb"
    /\ \A i \in 2..4 : FeeInputsUsed[i] = [txid |-> <<"tx", i - 1>>, n |-> 0]

\* ------------------------------------------------------------------ observations: two senders
\* The fee inputs of the transactions that the sender of process `by` has
\* built, sent or not.
FeeInputsBuiltBy(by) == {built[i].ins[1] : i \in {i \in 1..Len(built) : built[i].by = by}}

\* C35: the sender of the driver and the sender of a depositing client, both
\* on the operator wallet, never build on the same fee input.
C35_SendersShareNoFeeInput ==
    FeeInputsBuiltBy("driver") \cap FeeInputsBuiltBy("client") = {}

\* ------------------------------------------------------------------ observations: processed deposits
\* C36: in every progress transition that progress_tze_stf emits, the amounts
\* of the processed deposits it lists add up to the values of the deposit
\* outputs it consumes.
C36_ProcessedDepositsMatchInputs ==
    ProgressSucceeded =>
        SumAmounts(lastOp.tx.deposits) = SumValues(DepositOuts(lastOp.deposits))

\* ------------------------------------------------------------------ observations: bridge instances
\* C37: every deposit extract_zec_to_eth_transfers returns carries the
\* stf_identifier of this deployment in its payload.
C37_ReturnsOnlyOwnDeposits ==
    libCall.fn = "extract_zec_to_eth_transfers" =>
        \A e \in Range(libCall.ret) : e.out.stfid = STF_IDENTIFIER

====
